---- MODULE Spec2Model ----
(***************************************************************************)
(* A model of the temporal availability engine of nettu-scheduler:         *)
(*   - CompatibleInstances (the interval set) and interval subtraction,    *)
(*     scheduler/crates/domain/src/event_instance.rs                       *)
(*   - booking slots and service booking slots,                            *)
(*     scheduler/crates/domain/src/booking_slots.rs                        *)
(*   - the service booking-slots use case,                                 *)
(*     server/crates/api/src/service/usecases/get_service_bookingslots.rs  *)
(*   - the reminder dispatch job, server/crates/api/src/job_schedulers.rs  *)
(* Times are small integers standing for ms since epoch.                   *)
(***************************************************************************)
EXTENDS Integers, Sequences, FiniteSets, TLC

VARIABLES
    op,        \* the operation the last step performed
    events,    \* CompatibleInstances.events of the set under operation (self)
    arg,       \* the instances passed to the last operation
    skip,      \* the skip argument of remove_intances
    prev,      \* self.events before the last operation
    ret,       \* what the last operation returned (push: accepted or not)
    panicked,  \* the last operation hit an assert_eq!/unwrap panic
    busy_out   \* FreeBusy.busy of the last get_free_busy

\* booking slots: get_booking_slots and get_service_bookingslots
VARIABLES
    bs_pc,          \* "input" before the call, "done" after it
    free_events,    \* the CompatibleInstances handed to get_booking_slots
    users_free,     \* the Vec<UserFreeEvents> handed to get_service_bookingslots
    options,        \* BookingSlotsOptions
    booking_slots,  \* what get_booking_slots returned
    service_slots   \* what get_service_bookingslots returned

\* GetServiceBookingSlotsUseCase::execute, once the query is validated and
\* the service found
VARIABLES
    uc_pc,          \* "joining": join_all is awaited; "done": execute returned
    members,        \* service.users, each with the free set its free/busy gives
    uc_options,     \* the BookingSlotsOptions of the request
    status,         \* per member future: "pending", "ok" or "err"
    completion,     \* the member futures in the order they completed
    users_freebusy, \* the Vec<UserFreeEvents> built after join_all
    uc_slots        \* UseCaseRes.booking_slots

\* the reminder dispatch job, start_send_reminders_job
VARIABLES
    rm_now,      \* the minute ticks of minutely_interval so far
    reminders,   \* the reminder rows in the repository (pending)
    webhook,     \* per account: is settings.webhook Some
    tasks,       \* the task spawned at each tick: its position and what it holds
    claimed_by,  \* per reminder: the tasks whose claim returned it
    post_count,  \* per reminder: the webhook POSTs whose payload held it
    run_claim,   \* per task: the account groups its claim returned
    post_log     \* per task: the POSTs it sent, (account, ok), in order

\* the reminder expansion job, start_reminders_expansion_job_scheduler
VARIABLES
    ex_pc,
    ex_time,
    ex_deadline,
    ex_log

exVars == <<ex_pc, ex_time, ex_deadline, ex_log>>

\* the start delay of the jobs, get_start_delay
VARIABLES
    sd_pc,
    now_ts,
    secs_before_min,
    start_delay

sdVars == <<sd_pc, now_ts, secs_before_min, start_delay>>

\* the validation of a booking-slots query, GetServiceBookingSlotsUseCase::execute
VARIABLES
    q_pc,
    query,
    service_exists,
    q_timespan,
    q_result

qvVars == <<q_pc, query, service_exists, q_timespan, q_result>>

\* the update of a calendar event, UpdateEventUseCase
VARIABLES
    ue_pc,
    ue_event,
    ue_calendar,
    ue_clock,
    ue_request,
    ue_before,
    ue_result,
    ue_response

ueVars == <<ue_pc, ue_event, ue_calendar, ue_clock, ue_request, ue_before, ue_result, ue_response>>

\* the subtraction of one instance from one free instance, EventInstance::remove_instance
VARIABLES
    ri_pc,
    ri_free,
    ri_instance,
    ri_result

riVars == <<ri_pc, ri_free, ri_instance, ri_result>>

\* the schedule repository and the service repository, DeleteScheduleUseCase
VARIABLES
    ds_pc,
    ds_schedules,
    ds_services,
    ds_calls,
    ds_request,
    ds_before,
    ds_result

dsVars == <<ds_pc, ds_schedules, ds_services, ds_calls, ds_request, ds_before, ds_result>>

\* the service repository seen by update_service_user_usecase
VARIABLES
    us_pc,
    us_service,
    us_calls,
    us_request,
    us_before,
    us_result

usVars == <<us_pc, us_service, us_calls, us_request, us_before, us_result>>

\* the while loop of get_booking_slots, one cursor step at a time, on i64 values
VARIABLES
    gs_pc,
    gs_free,
    gs_options,
    gs_cursor,
    gs_slots,
    gs_steps,
    gs_overflow_checks

gsVars == <<gs_pc, gs_free, gs_options, gs_cursor, gs_slots, gs_steps, gs_overflow_checks>>

ivVars == <<op, events, arg, skip, prev, ret, panicked, busy_out>>

rmVars == <<rm_now, reminders, webhook, tasks, claimed_by, post_count, run_claim, post_log>>

ucVars == <<uc_pc, members, uc_options, status, completion, users_freebusy, uc_slots>>

bsVars == <<bs_pc, free_events, users_free, options, booking_slots, service_slots>>

vars == <<ivVars, bsVars, ucVars, rmVars, exVars, sdVars, qvVars, ueVars, riVars, dsVars, usVars, gsVars>>

\* the variables outside the interval-set scenarios
OutsideIv == <<bsVars, ucVars, rmVars, exVars, sdVars, qvVars, ueVars, riVars, dsVars, usVars, gsVars>>

\* the variables outside the booking-slot scenarios
OutsideBs == <<ivVars, ucVars, rmVars, exVars, sdVars, qvVars, ueVars, riVars, dsVars, usVars, gsVars>>

\* the variables outside the booking-slots use case
OutsideUc == <<ivVars, bsVars, rmVars, exVars, sdVars, qvVars, ueVars, riVars, dsVars, usVars, gsVars>>

\* the variables outside the reminder dispatch job
OutsideRm == <<ivVars, bsVars, ucVars, exVars, sdVars, qvVars, ueVars, riVars, dsVars, usVars, gsVars>>

\* the variables outside: the reminder expansion job, start_reminders_expansion_job_scheduler
OutsideEx == <<ivVars, bsVars, ucVars, rmVars, sdVars, qvVars, ueVars, riVars, dsVars, usVars, gsVars>>

\* the variables outside: the start delay of the jobs, get_start_delay
OutsideSd == <<ivVars, bsVars, ucVars, rmVars, exVars, qvVars, ueVars, riVars, dsVars, usVars, gsVars>>

\* the variables outside: the validation of a booking-slots query, GetServiceBookingSlotsUseCase::execute
OutsideQv == <<ivVars, bsVars, ucVars, rmVars, exVars, sdVars, ueVars, riVars, dsVars, usVars, gsVars>>

\* the variables outside: the update of a calendar event, UpdateEventUseCase
OutsideUe == <<ivVars, bsVars, ucVars, rmVars, exVars, sdVars, qvVars, riVars, dsVars, usVars, gsVars>>

\* the variables outside: the subtraction of one instance from one free instance, EventInstance::remove_instance
OutsideRi == <<ivVars, bsVars, ucVars, rmVars, exVars, sdVars, qvVars, ueVars, dsVars, usVars, gsVars>>

\* the variables outside: the schedule repository and the service repository, DeleteScheduleUseCase
OutsideDs == <<ivVars, bsVars, ucVars, rmVars, exVars, sdVars, qvVars, ueVars, riVars, usVars, gsVars>>

\* the variables outside: the service repository seen by update_service_user_usecase
OutsideUs == <<ivVars, bsVars, ucVars, rmVars, exVars, sdVars, qvVars, ueVars, riVars, dsVars, gsVars>>

\* the variables outside: the while loop of get_booking_slots, one cursor step at a time, on i64 values
OutsideGs == <<ivVars, bsVars, ucVars, rmVars, exVars, sdVars, qvVars, ueVars, riVars, dsVars, usVars>>

(***************************************************************************)
(* Bounds of the model.                                                    *)
(***************************************************************************)
\* time points of the construction and push scenarios are 0..MaxTime
MaxTime == 3
\* length of the lists handed to CompatibleInstances::new
MaxLen == 3
\* the subtraction scenarios use the unit cells [c, c+1), c in 0..MaxCell-1
MaxCell == 7
\* the free sets of the booking-slot scenarios use the cells 0..SlotCells-1
SlotCells == 6
\* BookingSlotsOptions: start_ts in 0..MaxStart, end_ts in 0..SlotCells+1,
\* duration in -1..MaxDuration, interval in 1..MaxInterval
MaxStart == 1
MaxDuration == 2
MaxInterval == 2
\* get_service_bookingslots: up to MaxMembers members, each with a free set
\* over the cells 0..SvcCells-1
MaxMembers == 2
SvcCells == 3
\* the use case: the free set of a member is over the cells 0..UcCells-1
UcCells == 2
\* the dispatch job: NumReminders reminder rows, MaxTicks minute ticks
NumReminders == 2
MaxTicks == 3
\* the expansion job: MaxExecutions executions, each taking 0..MaxExecSecs seconds
MaxExecutions == 5
MaxExecSecs == 2
\* get_start_delay: now_ts covers the seconds 0..MaxNowSecs
MaxNowSecs == 125
\* query validation: intervals within IntervalMargin of each limit
IntervalMargin == 2
\* UpdateEvent: up to MaxUpdateCalls requests in a row
MaxUpdateCalls == 2
MaxDeleteCalls == 2
MaxCalendarIds == 2
MaxServiceCalls == 2
IntBits == 5
LoopCells == 3

(***************************************************************************)
(* EventInstance, event_instance.rs                                        *)
(***************************************************************************)
EventInstance(s, e, b) == [start_ts |-> s, end_ts |-> e, busy |-> b]

has_overlap(instance1, instance2) ==
    instance1.start_ts <= instance2.end_ts /\ instance1.end_ts >= instance2.start_ts

can_merge(instance1, instance2) ==
    instance1.busy = instance2.busy /\ has_overlap(instance1, instance2)

Min(a, b) == IF a <= b THEN a ELSE b
Max(a, b) == IF a >= b THEN a ELSE b

\* Option<EventInstance>: <<>> is None, <<m>> is Some(m)
merge(instance1, instance2) ==
    IF ~can_merge(instance1, instance2)
    THEN <<>>
    ELSE << EventInstance(Min(instance1.start_ts, instance2.start_ts),
                          Max(instance1.end_ts, instance2.end_ts),
                          instance1.busy) >>

\* events.sort_by(|i1, i2| i1.start_ts.cmp(&i2.start_ts)): a stable sort
RECURSIVE sort_by_start_ts(_)
\* the events are left in the order they came in
sort_by_start_ts_order_kept(xs) == xs

sort_by_start_ts(xs) ==
    IF Len(xs) <= 1 THEN xs
    ELSE LET s == sort_by_start_ts(SubSeq(xs, 1, Len(xs) - 1))
             x == xs[Len(xs)]
             k == Cardinality({i \in 1..Len(s) : s[i].start_ts <= x.start_ts})
         IN  SubSeq(s, 1, k) \o <<x>> \o SubSeq(s, k + 1, Len(s))

\* the for loop of CompatibleInstances::new over the sorted events
RECURSIVE new_fold(_, _, _)
new_fold(sorted, i, compatible_events) ==
    IF i > Len(sorted) THEN compatible_events
    ELSE IF i = 1 THEN new_fold(sorted, 2, <<sorted[1]>>)
    ELSE LET len == Len(compatible_events)
             merged == merge(sorted[i], compatible_events[len])
         IN  IF merged # <<>>
             THEN new_fold(sorted, i + 1, [compatible_events EXCEPT ![len] = merged[1]])
             ELSE new_fold(sorted, i + 1, Append(compatible_events, sorted[i]))

CompatibleInstances_new(xs) == new_fold(sort_by_start_ts(xs), 1, <<>>)

\* push_front refusing an instance that ends where the first one starts
push_front_touching_refused(evs, instance) ==
    IF Len(evs) > 0 /\ evs[1].start_ts <= instance.end_ts
    THEN [events |-> evs, ok |-> FALSE]
    ELSE [events |-> <<instance>> \o evs, ok |-> TRUE]

\* push_front: [events, ok]
push_front(evs, instance) ==
    IF Len(evs) > 0 /\ evs[1].start_ts < instance.end_ts
    THEN [events |-> evs, ok |-> FALSE]
    ELSE [events |-> <<instance>> \o evs, ok |-> TRUE]

\* push_back comparing the start of the last instance instead of its end
push_back_start_compared(evs, instance) ==
    IF Len(evs) > 0 /\ evs[Len(evs)].start_ts > instance.start_ts
    THEN [events |-> evs, ok |-> FALSE]
    ELSE [events |-> Append(evs, instance), ok |-> TRUE]

\* push_back: [events, ok]
push_back(evs, instance) ==
    IF Len(evs) > 0 /\ evs[Len(evs)].end_ts > instance.start_ts
    THEN [events |-> evs, ok |-> FALSE]
    ELSE [events |-> Append(evs, instance), ok |-> TRUE]

RECURSIVE extend(_, _)
extend(evs, instances) ==
    IF instances = <<>> THEN evs
    ELSE extend(push_back(evs, Head(instances)).events, Tail(instances))

\* the second piece starts where the removed instance starts
split_instances_second_from_start(free_instance, instance) ==
    << EventInstance(free_instance.start_ts, instance.start_ts, FALSE),
       EventInstance(instance.start_ts, free_instance.end_ts, FALSE) >>

\* the two instances of a Split, the instance of an OverlapBeginning and the
\* instance of an OverlapEnd, as remove_instance builds them
split_instances(free_instance, instance) ==
    << EventInstance(free_instance.start_ts, instance.start_ts, FALSE),
       EventInstance(instance.end_ts, free_instance.end_ts, FALSE) >>

overlap_beginning_instance_kept(free_instance, instance) ==
    EventInstance(free_instance.start_ts, free_instance.end_ts, FALSE)

overlap_beginning_instance(free_instance, instance) ==
    EventInstance(instance.end_ts, free_instance.end_ts, FALSE)

\* the piece of an OverlapEnd reaching the end of the free instance
overlap_end_instance_whole(free_instance, instance) ==
    EventInstance(free_instance.start_ts, free_instance.end_ts, FALSE)

overlap_end_instance(free_instance, instance) ==
    EventInstance(free_instance.start_ts, instance.start_ts, FALSE)

\* a free instance that starts where the instance ends counts as covered
remove_instance_touching_is_empty(free_instance, instance) ==
    IF ~has_overlap(free_instance, instance)
    THEN [kind |-> "NoOverlap", events |-> <<>>]
    ELSE IF instance.start_ts <= free_instance.start_ts
            /\ (instance.end_ts >= free_instance.end_ts
                \/ free_instance.start_ts = instance.end_ts)
    THEN [kind |-> "Empty", events |-> <<>>]
    ELSE IF instance.start_ts > free_instance.start_ts
            /\ instance.end_ts < free_instance.end_ts
    THEN [kind |-> "Split",
          events |-> CompatibleInstances_new(split_instances(free_instance, instance))]
    ELSE IF free_instance.start_ts >= instance.start_ts
    THEN [kind |-> "OverlapBeginning",
          events |-> CompatibleInstances_new(
              << overlap_beginning_instance(free_instance, instance) >>)]
    ELSE [kind |-> "OverlapEnd",
          events |-> CompatibleInstances_new(
              << overlap_end_instance(free_instance, instance) >>)]

\* SubtractInstanceResult: [kind, events]
remove_instance(free_instance, instance) ==
    IF ~has_overlap(free_instance, instance) \/ free_instance.start_ts = instance.end_ts
    THEN [kind |-> "NoOverlap", events |-> <<>>]
    ELSE IF instance.start_ts <= free_instance.start_ts
            /\ instance.end_ts >= free_instance.end_ts
    THEN [kind |-> "Empty", events |-> <<>>]
    ELSE IF instance.start_ts > free_instance.start_ts
            /\ instance.end_ts < free_instance.end_ts
    THEN [kind |-> "Split",
          events |-> CompatibleInstances_new(split_instances(free_instance, instance))]
    ELSE IF free_instance.start_ts >= instance.start_ts
    THEN [kind |-> "OverlapBeginning",
          events |-> CompatibleInstances_new(
              << overlap_beginning_instance(free_instance, instance) >>)]
    ELSE [kind |-> "OverlapEnd",
          events |-> CompatibleInstances_new(
              << overlap_end_instance(free_instance, instance) >>)]

\* A result of remove_instances / remove_intances: the instances left, and
\* whether an assert_eq! or unwrap of remove_instances panicked on the way.
Left(evs) == [events |-> evs, panic |-> FALSE]
Panic == [events |-> <<>>, panic |-> TRUE]

RECURSIVE remove_instances_loop(_, _, _, _, _, _)
RECURSIVE remove_intances_map(_, _, _, _)

\* remove_instances scanning from the first instance whatever skip is
remove_instances_skip_ignored(self, intances, skp) ==
    remove_instances_loop(self, intances, 0, 0, <<>>, FALSE)

\* EventInstance::remove_instances: self minus intances[skip..]
remove_instances(self, intances, skp) ==
    remove_instances_loop(self, intances, skp, 0, <<>>, FALSE)

\* CompatibleInstances::remove_intances: map every instance, flatten, collect
remove_intances(evs, instances, skp) ==
    remove_intances_map(evs, instances, skp, 1)

\* the for loop of remove_instances at enumerate position pos, with
\* free_instances_without_conflict and conflict as they are before the step
remove_instances_loop(self, intances, skp, pos, without_conflict, conflict) ==
    LET idx == skp + pos + 1
        finish == IF ~conflict
                  THEN Left(push_back(without_conflict, self).events)
                  ELSE Left(without_conflict)
    IN  IF idx > Len(intances) THEN finish
        ELSE IF intances[idx].start_ts >= self.end_ts THEN finish
        ELSE
        LET instance == intances[idx]
            r == remove_instance(self, instance)
        IN  CASE r.kind = "OverlapEnd" ->
                   IF Len(r.events) # 1 THEN Panic
                   ELSE remove_instances_loop(self, intances, skp, pos + 1,
                            extend(without_conflict, r.events), TRUE)
              [] r.kind = "OverlapBeginning" ->
                   IF Len(r.events) # 1 THEN Panic
                   ELSE LET event == remove_intances(r.events, intances, pos + 1)
                        IN  IF event.panic THEN Panic
                            ELSE remove_instances_loop(self, intances, skp, pos + 1,
                                     extend(without_conflict, event.events), TRUE)
              [] r.kind = "Split" ->
                   IF Len(r.events) # 2 THEN Panic
                   ELSE LET last_event == r.events[2]
                            first_event == r.events[1]
                            reduced == remove_intances(
                                CompatibleInstances_new(<<last_event>>), intances, pos + 1)
                        IN  IF reduced.panic THEN Panic
                            ELSE remove_instances_loop(self, intances, skp, pos + 1,
                                     extend(without_conflict,
                                            push_front(reduced.events, first_event).events),
                                     TRUE)
              [] r.kind = "Empty" ->
                   remove_instances_loop(self, intances, skp, pos + 1,
                                         without_conflict, TRUE)
              [] r.kind = "NoOverlap" ->
                   remove_instances_loop(self, intances, skp, pos + 1,
                                         without_conflict, FALSE)

remove_intances_map(evs, instances, skp, i) ==
    IF i > Len(evs) THEN Left(<<>>)
    ELSE LET head == remove_instances(evs[i], instances, skp)
             rest == remove_intances_map(evs, instances, skp, i + 1)
         IN  IF head.panic \/ rest.panic THEN Panic
             ELSE Left(head.events \o rest.events)

\* seperate_free_busy_events: (free_instances, busy_instances)
seperate_free_busy_events(instances) ==
    << SelectSeq(instances, LAMBDA i : ~i.busy),
       SelectSeq(instances, LAMBDA i : i.busy) >>

\* get_free_busy: FreeBusy {free, busy}, and whether the subtraction panicked
get_free_busy(instances) ==
    LET sep == seperate_free_busy_events(instances)
        free_instances == CompatibleInstances_new(sep[1])
        busy_instances == CompatibleInstances_new(sep[2])
        left == remove_intances(free_instances, busy_instances, 0)
    IN  [free |-> left.events, busy |-> busy_instances, panic |-> left.panic]

(***************************************************************************)
(* Inputs                                                                  *)
(***************************************************************************)
SeqUpTo(S, n) == UNION {[1..k -> S] : k \in 0..n}

\* the EventInstances with start_ts < end_ts over the time points 0..MaxTime
Instances ==
    {i \in [start_ts : 0..MaxTime, end_ts : 0..MaxTime, busy : BOOLEAN] :
        i.start_ts < i.end_ts}

Lists == SeqUpTo(Instances, MaxLen)

SameTag(xs) == \A i, j \in 1..Len(xs) : xs[i].busy = xs[j].busy

SameTagLists == {xs \in Lists : SameTag(xs)}

\* sets CompatibleInstances::new builds from up to two instances, handed to
\* extend / remove_intances
OtherSets == {CompatibleInstances_new(xs) : xs \in SeqUpTo(Instances, 2)}

\* the unit instances [c, c+1) of a set of cells, highest cell first
RECURSIVE CellList(_, _)
CellList(S, b) ==
    IF S = {} THEN <<>>
    ELSE LET m == CHOOSE x \in S : \A y \in S : y <= x
         IN  <<EventInstance(m, m + 1, b)>> \o CellList(S \ {m}, b)

Cells == 0..(MaxCell - 1)

ExIdle ==
    /\ ex_pc = "idle" /\ ex_time = 0 /\ ex_deadline = 0 /\ ex_log = <<>>

SdIdle ==
    /\ sd_pc = "idle" /\ now_ts = 0 /\ secs_before_min = 0 /\ start_delay = 0

QvIdle ==
    /\ q_pc = "idle" /\ query = <<>> /\ service_exists = FALSE /\ q_timespan = <<>> /\ q_result = "none"

UeIdle ==
    /\ ue_pc = "idle" /\ ue_event = <<>> /\ ue_calendar = FALSE /\ ue_clock = 0 /\ ue_request = <<>> /\ ue_before = <<>> /\ ue_result = "none" /\ ue_response = "none"

RiIdle ==
    /\ ri_pc = "idle" /\ ri_free = <<>> /\ ri_instance = <<>> /\ ri_result = <<>>

DsIdle ==
    /\ ds_pc = "idle" /\ ds_schedules = {} /\ ds_services = <<>> /\ ds_calls = 0 /\ ds_request = <<>> /\ ds_before = <<>> /\ ds_result = "none"

UsIdle ==
    /\ us_pc = "idle" /\ us_service = <<>> /\ us_calls = 0 /\ us_request = <<>> /\ us_before = <<>> /\ us_result = <<>>

GsIdle ==
    /\ gs_pc = "idle" /\ gs_free = <<>> /\ gs_options = <<>> /\ gs_cursor = 0 /\ gs_slots = <<>> /\ gs_steps = 0 /\ gs_overflow_checks = FALSE

RmIdle ==
    /\ rm_now = 0 /\ reminders = {} /\ webhook = <<>> /\ tasks = <<>>
    /\ claimed_by = <<>> /\ post_count = <<>>
    /\ run_claim = <<>> /\ post_log = <<>>

UcIdle ==
    /\ uc_pc = "idle" /\ members = <<>> /\ status = <<>> /\ completion = <<>>
    /\ uc_options = [start_ts |-> 0, end_ts |-> 0, duration |-> 0, interval |-> 1]
    /\ users_freebusy = <<>> /\ uc_slots = <<>>

BsIdle ==
    /\ bs_pc = "idle" /\ free_events = <<>> /\ users_free = <<>>
    /\ options = [start_ts |-> 0, end_ts |-> 0, duration |-> 0, interval |-> 1]
    /\ booking_slots = <<>> /\ service_slots = <<>>

IvIdle ==
    /\ op = "idle" /\ events = <<>> /\ arg = <<>> /\ skip = 0 /\ prev = <<>>
    /\ ret = FALSE /\ panicked = FALSE /\ busy_out = <<>>

(***************************************************************************)
(* CompatibleInstances::new on a list of instances                         *)
(***************************************************************************)
InitNew ==
    /\ arg \in Lists
    /\ op = "input" /\ events = <<>> /\ skip = 0 /\ prev = <<>>
    /\ ret = FALSE /\ panicked = FALSE /\ busy_out = <<>>
    /\ BsIdle /\ UcIdle /\ RmIdle /\ ExIdle /\ SdIdle /\ QvIdle /\ UeIdle /\ RiIdle /\ DsIdle /\ UsIdle /\ GsIdle

NewStep ==
    /\ op = "input"
    /\ op' = "new"
    /\ events' = CompatibleInstances_new(arg)
    /\ UNCHANGED <<arg, skip, prev, ret, panicked, busy_out>>
    /\ UNCHANGED OutsideIv

NextNew == NewStep

SpecNew == InitNew /\ [][NextNew]_vars

(***************************************************************************)
(* push_front, push_back, extend and remove_intances on a set built by     *)
(* CompatibleInstances::new from same-tag instances                        *)
(***************************************************************************)
InitPush ==
    /\ \E xs \in SameTagLists : events = CompatibleInstances_new(xs)
    /\ op = "new" /\ arg = <<>> /\ skip = 0 /\ prev = <<>>
    /\ ret = FALSE /\ panicked = FALSE /\ busy_out = <<>>
    /\ BsIdle /\ UcIdle /\ RmIdle /\ ExIdle /\ SdIdle /\ QvIdle /\ UeIdle /\ RiIdle /\ DsIdle /\ UsIdle /\ GsIdle

PushFrontStep ==
    \E x \in Instances :
        LET r == push_front(events, x)
        IN  /\ op' = "push_front"
            /\ prev' = events
            /\ arg' = <<x>>
            /\ events' = r.events
            /\ ret' = r.ok
            /\ UNCHANGED <<skip, panicked, busy_out>>
            /\ UNCHANGED OutsideIv

PushBackStep ==
    \E x \in Instances :
        LET r == push_back(events, x)
        IN  /\ op' = "push_back"
            /\ prev' = events
            /\ arg' = <<x>>
            /\ events' = r.events
            /\ ret' = r.ok
            /\ UNCHANGED <<skip, panicked, busy_out>>
            /\ UNCHANGED OutsideIv

\* The argument of extend and remove_intances is not recorded here: the
\* subtraction scenarios below record it.
ExtendStep ==
    \E o \in OtherSets :
        /\ op' = "extend"
        /\ events' = extend(events, o)
        /\ prev' = <<>> /\ arg' = <<>> /\ ret' = FALSE
        /\ UNCHANGED <<skip, panicked, busy_out>>
        /\ UNCHANGED OutsideIv

RemoveIntancesStep ==
    \E o \in OtherSets : \E skp \in 0..Len(o) :
        LET r == remove_intances(events, o, skp)
        IN  /\ ~panicked
            /\ op' = "remove_intances"
            /\ events' = r.events
            /\ panicked' = r.panic
            /\ prev' = <<>> /\ arg' = <<>> /\ ret' = FALSE
            /\ UNCHANGED <<skip, busy_out>>
            /\ UNCHANGED OutsideIv

NextPush == PushFrontStep \/ PushBackStep \/ ExtendStep \/ RemoveIntancesStep

SpecPush == InitPush /\ [][NextPush]_vars

(***************************************************************************)
(* free.remove_intances(&busy, skip) and get_free_busy on the instances of *)
(* a set of free cells and a set of busy cells                             *)
(***************************************************************************)
InitSubtract ==
    /\ \E F \in SUBSET Cells : \E B \in SUBSET Cells :
           arg = CellList(F, FALSE) \o CellList(B, TRUE)
    /\ op = "input" /\ events = <<>> /\ skip = 0 /\ prev = <<>>
    /\ ret = FALSE /\ panicked = FALSE /\ busy_out = <<>>
    /\ BsIdle /\ UcIdle /\ RmIdle /\ ExIdle /\ SdIdle /\ QvIdle /\ UeIdle /\ RiIdle /\ DsIdle /\ UsIdle /\ GsIdle

SubtractStep ==
    /\ op = "input"
    /\ LET sep == seperate_free_busy_events(arg)
           free == CompatibleInstances_new(sep[1])
           busy == CompatibleInstances_new(sep[2])
       IN  \E skp \in 0..Len(busy) :
               LET r == remove_intances(free, busy, skp)
               IN  /\ op' = "remove_intances"
                   /\ prev' = free
                   /\ busy_out' = busy
                   /\ skip' = skp
                   /\ events' = r.events
                   /\ panicked' = r.panic
    /\ UNCHANGED <<arg, ret>>
    /\ UNCHANGED OutsideIv

FreeBusyStep ==
    /\ op = "input"
    /\ LET fb == get_free_busy(arg)
       IN  /\ op' = "get_free_busy"
           /\ prev' = CompatibleInstances_new(seperate_free_busy_events(arg)[1])
           /\ events' = fb.free
           /\ busy_out' = fb.busy
           /\ panicked' = fb.panic
    /\ UNCHANGED <<arg, skip, ret>>
    /\ UNCHANGED OutsideIv

NextSubtract == SubtractStep \/ FreeBusyStep

SpecSubtract == InitSubtract /\ [][NextSubtract]_vars

(***************************************************************************)
(* Properties of the interval set                                          *)
(***************************************************************************)
StrictlyAscending(evs) ==
    \A i \in 1..(Len(evs) - 1) : evs[i].start_ts < evs[i + 1].start_ts

\* no two consecutive same-tag instances that overlap or touch
Coalesced(evs) ==
    \A i \in 1..(Len(evs) - 1) :
        ~(evs[i].end_ts >= evs[i + 1].start_ts /\ evs[i].busy = evs[i + 1].busy)

\* no two instances overlap: each ends before or when the next one starts
Compatible(evs) ==
    /\ \A i \in 1..Len(evs) : evs[i].start_ts < evs[i].end_ts
    /\ \A i \in 1..(Len(evs) - 1) : evs[i].end_ts <= evs[i + 1].start_ts

Disjoint(f, b) == f.end_ts <= b.start_ts \/ b.end_ts <= f.start_ts

\* the time points t whose cell [t, t+1) lies in an instance of evs
Cover(evs) ==
    {t \in 0..MaxCell : \E i \in 1..Len(evs) : evs[i].start_ts <= t /\ t < evs[i].end_ts}

\* C1: CompatibleInstances::new(xs), for every list xs of instances of any
\* mix of tags, is strictly ascending by start_ts and has no index i with
\* ys[i].end_ts >= ys[i+1].start_ts and ys[i].busy = ys[i+1].busy.
C1_NewStrictlyAscendingCoalesced ==
    op = "new" => StrictlyAscending(events) /\ Coalesced(events)

C4_AlwaysCoalesced ==
    StrictlyAscending(events) /\ Compatible(events) /\ Coalesced(events)

\* C4 as amended: after any sequence of push_front, push_back, extend and
\* remove_intances the set is ascending by start_ts and has no two
\* overlapping instances (same-tag instances that touch may stay separate).
C4_SortedAndCompatible ==
    StrictlyAscending(events) /\ Compatible(events)

\* push_back has accepted an instance that touches the last one, same tag
C4_Witness ==
    /\ op = "push_back" /\ ret /\ Len(events) >= 2
    /\ events[Len(events) - 1].end_ts = events[Len(events)].start_ts
    /\ events[Len(events) - 1].busy = events[Len(events)].busy

(***************************************************************************)
(* Booking slots, booking_slots.rs                                         *)
(***************************************************************************)
BookingSlot(s, d, u) == [start |-> s, duration |-> d, available_until |-> u]

BookingSlotsOptions(s, e, d, i) ==
    [start_ts |-> s, end_ts |-> e, duration |-> d, interval |-> i]

ServiceBookingSlot(s, d, ids) == [start |-> s, duration |-> d, user_ids |-> ids]

UserFreeEvents(evs, id) == [free_events |-> evs, user_id |-> id]

\* is_cursor_in_events that looks at the cursor only, not at cursor + duration
RECURSIVE is_cursor_in_events_duration_forgotten(_, _, _)
is_cursor_in_events_duration_forgotten(cursor, duration, evs) ==
    IF evs = <<>> THEN <<>>
    ELSE IF Head(evs).start_ts <= cursor /\ Head(evs).end_ts >= cursor
         THEN <<Head(evs)>>
         ELSE is_cursor_in_events_duration_forgotten(cursor, duration, Tail(evs))

\* Option<&EventInstance>: the first event that holds [cursor, cursor + duration]
RECURSIVE is_cursor_in_events(_, _, _)
is_cursor_in_events(cursor, duration, evs) ==
    IF evs = <<>> THEN <<>>
    ELSE IF Head(evs).start_ts <= cursor /\ Head(evs).end_ts >= cursor + duration
         THEN <<Head(evs)>>
         ELSE is_cursor_in_events(cursor, duration, Tail(evs))

\* the loop condition with < in the place of <=
cursor_in_window_strict(cursor, duration, end_ts) == cursor + duration < end_ts

\* the condition of the while loop of get_booking_slots
cursor_in_window(cursor, duration, end_ts) == cursor + duration <= end_ts

\* the while loop of get_booking_slots; interval >= 1, or it does not end
RECURSIVE booking_slots_loop(_, _, _, _)
\* available_until cut at the end of the window
booking_slots_loop_until_clamped(free, opts, cursor, slots) ==
    IF ~cursor_in_window(cursor, opts.duration, opts.end_ts) THEN slots
    ELSE LET available_event == is_cursor_in_events(cursor, opts.duration, free)
         IN  booking_slots_loop(free, opts, cursor + opts.interval,
                 IF available_event # <<>>
                 THEN Append(slots, BookingSlot(cursor, opts.duration,
                                 Min(available_event[1].end_ts, opts.end_ts)))
                 ELSE slots)

booking_slots_loop(free, opts, cursor, slots) ==
    IF ~cursor_in_window(cursor, opts.duration, opts.end_ts) THEN slots
    ELSE LET available_event == is_cursor_in_events(cursor, opts.duration, free)
         IN  booking_slots_loop(free, opts, cursor + opts.interval,
                 IF available_event # <<>>
                 THEN Append(slots, BookingSlot(cursor, opts.duration,
                                                available_event[1].end_ts))
                 ELSE slots)

get_booking_slots(free, opts) ==
    IF opts.duration < 1 THEN <<>>
    ELSE booking_slots_loop(free, opts, opts.start_ts, <<>>)

\* HashMap::insert: a map is a function from its keys
MapInsert(m, k, v) == [x \in (DOMAIN m) \cup {k} |-> IF x = k THEN v ELSE m[x]]

\* the insert that forgets the user_ids the slot already has
lookup_insert_user_ids_lost(slots_lookup, slot, user_id) ==
    MapInsert(slots_lookup, slot.start,
              ServiceBookingSlot(slot.start, slot.duration, <<user_id>>))

\* the body of the inner for loop of get_service_bookingslots
lookup_insert(slots_lookup, slot, user_id) ==
    IF slot.start \in DOMAIN slots_lookup
    THEN MapInsert(slots_lookup, slot.start,
             ServiceBookingSlot(slot.start, slot.duration,
                 Append(slots_lookup[slot.start].user_ids, user_id)))
    ELSE MapInsert(slots_lookup, slot.start,
             ServiceBookingSlot(slot.start, slot.duration, <<user_id>>))

\* for slot in slots
RECURSIVE insert_user_slots(_, _, _)
insert_user_slots(slots_lookup, slots, user_id) ==
    IF slots = <<>> THEN slots_lookup
    ELSE insert_user_slots(lookup_insert(slots_lookup, Head(slots), user_id),
                           Tail(slots), user_id)

\* for user in &users_free
RECURSIVE insert_users(_, _, _)
insert_users(slots_lookup, users, opts) ==
    IF users = <<>> THEN slots_lookup
    ELSE insert_users(
             insert_user_slots(slots_lookup,
                               get_booking_slots(Head(users).free_events, opts),
                               Head(users).user_id),
             Tail(users), opts)

\* slots_lookup.drain() collected and sorted by start: the keys are the
\* starts, so whatever order drain yields, the sorted Vec is the same
RECURSIVE drain_sorted_by_start(_)
drain_sorted_by_start(slots_lookup) ==
    IF DOMAIN slots_lookup = {} THEN <<>>
    ELSE LET k == CHOOSE x \in DOMAIN slots_lookup : \A y \in DOMAIN slots_lookup : x <= y
         IN  <<slots_lookup[k]>> \o
             drain_sorted_by_start([x \in (DOMAIN slots_lookup) \ {k} |-> slots_lookup[x]])

get_service_bookingslots(users, opts) ==
    drain_sorted_by_start(insert_users(<<>>, users, opts))

(***************************************************************************)
(* get_booking_slots on a free set and options                             *)
(***************************************************************************)
SlotFreeSets == {CompatibleInstances_new(CellList(F, FALSE)) : F \in SUBSET (0..(SlotCells - 1))}

SlotOptions ==
    [start_ts : 0..MaxStart, end_ts : 0..(SlotCells + 1),
     duration : (-1)..MaxDuration, interval : 1..MaxInterval]

InitSlots ==
    /\ free_events \in SlotFreeSets
    /\ options \in SlotOptions
    /\ bs_pc = "input" /\ users_free = <<>> /\ booking_slots = <<>> /\ service_slots = <<>>
    /\ IvIdle /\ UcIdle /\ RmIdle /\ ExIdle /\ SdIdle /\ QvIdle /\ UeIdle /\ RiIdle /\ DsIdle /\ UsIdle /\ GsIdle

BookingSlotsStep ==
    /\ bs_pc = "input"
    /\ bs_pc' = "done"
    /\ booking_slots' = get_booking_slots(free_events, options)
    /\ UNCHANGED <<free_events, users_free, options, service_slots>>
    /\ UNCHANGED OutsideBs

NextSlots == BookingSlotsStep

SpecSlots == InitSlots /\ [][NextSlots]_vars

(***************************************************************************)
(* get_service_bookingslots on a list of members and options               *)
(***************************************************************************)
Users == {"u1", "u2"}

SvcFreeSets == {CompatibleInstances_new(CellList(F, FALSE)) : F \in SUBSET (0..(SvcCells - 1))}

SvcMembers == {UserFreeEvents(f, u) : f \in SvcFreeSets, u \in Users}

SvcOptions ==
    [start_ts : {0}, end_ts : {SvcCells}, duration : 1..MaxDuration, interval : 1..MaxInterval]

InitServiceSlots ==
    /\ users_free \in SeqUpTo(SvcMembers, MaxMembers)
    /\ options \in SvcOptions
    /\ bs_pc = "input" /\ free_events = <<>> /\ booking_slots = <<>> /\ service_slots = <<>>
    /\ IvIdle /\ UcIdle /\ RmIdle /\ ExIdle /\ SdIdle /\ QvIdle /\ UeIdle /\ RiIdle /\ DsIdle /\ UsIdle /\ GsIdle

ServiceSlotsStep ==
    /\ bs_pc = "input"
    /\ bs_pc' = "done"
    /\ service_slots' = get_service_bookingslots(users_free, options)
    /\ UNCHANGED <<free_events, users_free, options, booking_slots>>
    /\ UNCHANGED OutsideBs

NextServiceSlots == ServiceSlotsStep

SpecServiceSlots == InitServiceSlots /\ [][NextServiceSlots]_vars

(***************************************************************************)
(* Properties of the booking slots                                         *)
(***************************************************************************)
\* some free instance holds [c, c + duration]
Fits(free, c, duration) ==
    \E i \in 1..Len(free) : free[i].start_ts <= c /\ free[i].end_ts >= c + duration

\* C5: every BookingSlot returned lies inside one free instance and inside
\* the window, has the duration asked for and starts a whole number of
\* intervals after options.start_ts.
C5_SlotsInsideFreeAndWindow ==
    bs_pc = "done"
    => \A k \in 1..Len(booking_slots) :
           LET s == booking_slots[k]
           IN  /\ Fits(free_events, s.start, s.duration)
               /\ s.duration = options.duration
               /\ s.start >= options.start_ts
               /\ s.start + s.duration <= options.end_ts
               /\ (s.start - options.start_ts) % options.interval = 0

\* slots were returned, and the cursor at start_ts was not one of them
C5_Witness ==
    /\ bs_pc = "done" /\ Len(booking_slots) >= 2
    /\ booking_slots[1].start > options.start_ts

\* C6: for duration >= 1 every cursor start_ts + k*interval that ends inside
\* the window and fits a free instance is emitted exactly once, the starts
\* are strictly increasing; for duration < 1 nothing is returned.
C6_SlotsCompleteAndOrdered ==
    bs_pc = "done"
    => /\ options.duration < 1 => booking_slots = <<>>
       /\ options.duration >= 1 =>
              \A k \in 0..Max(0, options.end_ts - options.start_ts) :
                  LET c == options.start_ts + k * options.interval
                  IN  c + options.duration <= options.end_ts
                      /\ Fits(free_events, c, options.duration)
                      => Cardinality({i \in 1..Len(booking_slots) :
                                         booking_slots[i].start = c}) = 1
       /\ \A i \in 1..(Len(booking_slots) - 1) :
              booking_slots[i].start < booking_slots[i + 1].start

\* slots of two free instances were returned, the last ending with the window
C6_Witness ==
    /\ bs_pc = "done" /\ Len(free_events) >= 2 /\ Len(booking_slots) >= 3
    /\ booking_slots[Len(booking_slots)].start + options.duration = options.end_ts
    /\ booking_slots[1].available_until # booking_slots[Len(booking_slots)].available_until

\* the starts of the slots get_booking_slots gives a member
SlotStarts(member, opts) ==
    LET slots == get_booking_slots(member.free_events, opts)
    IN  {slots[i].start : i \in 1..Len(slots)}

Elems(seq) == {seq[i] : i \in 1..Len(seq)}

\* C7: get_service_bookingslots returns, strictly ascending by start, one
\* ServiceBookingSlot for each start at which some member has a booking
\* slot, with options.duration and with exactly the members that have a
\* booking slot at that start.
C7_ServiceSlotsGroupMembers ==
    bs_pc = "done"
    => /\ \A i \in 1..(Len(service_slots) - 1) :
              service_slots[i].start < service_slots[i + 1].start
       /\ {service_slots[i].start : i \in 1..Len(service_slots)}
              = UNION {SlotStarts(users_free[m], options) : m \in 1..Len(users_free)}
       /\ \A i \in 1..Len(service_slots) :
              /\ service_slots[i].duration = options.duration
              /\ Elems(service_slots[i].user_ids)
                     = {users_free[m].user_id :
                            m \in {n \in 1..Len(users_free) :
                                      service_slots[i].start
                                          \in SlotStarts(users_free[n], options)}}

\* two members share one start and one of them has another start alone
C7_Witness ==
    /\ bs_pc = "done" /\ Len(users_free) = 2 /\ Len(service_slots) >= 2
    /\ users_free[1].user_id # users_free[2].user_id
    /\ \E i, j \in 1..Len(service_slots) :
           Len(service_slots[i].user_ids) = 2 /\ Len(service_slots[j].user_ids) = 1

\* C9: in every ServiceBookingSlot returned by get_service_bookingslots a
\* user id occurs at most once in user_ids, whatever list of members is
\* passed in.
C9_UserOncePerSlot ==
    bs_pc = "done"
    => \A i \in 1..Len(service_slots) :
           \A a, b \in 1..Len(service_slots[i].user_ids) :
               a # b => service_slots[i].user_ids[a] # service_slots[i].user_ids[b]

(***************************************************************************)
(* The service booking-slots use case, get_service_bookingslots.rs         *)
(***************************************************************************)
\* What GetUserFreeBusyUseCase answers for a member when it succeeds: the
\* member's user id and the free set of the member in the window.
GetUserFreeBusyResponse(member) ==
    [free |-> member.free_events, user_id |-> member.user_id]

\* the results in the order the futures completed
join_all_by_completion(n, completed) == completed

\* join_all(usecase_futures): the results are in the order of the futures
\* handed in, whatever the order they completed in
join_all(n, completed) == [i \in 1..n |-> i]

\* for user_free_events in users_free_events: Ok is pushed, Err is logged
RECURSIVE collect_users_freebusy(_, _, _)
\* the Err results are pushed as well
collect_users_freebusy_errors_kept(order, mems, stat) ==
    [k \in 1..Len(order) |->
        UserFreeEvents(GetUserFreeBusyResponse(mems[order[k]]).free,
                       GetUserFreeBusyResponse(mems[order[k]]).user_id)]

collect_users_freebusy(order, mems, stat) ==
    IF order = <<>> THEN <<>>
    ELSE LET i == Head(order)
             rest == collect_users_freebusy(Tail(order), mems, stat)
         IN  IF stat[i] = "ok"
             THEN << UserFreeEvents(GetUserFreeBusyResponse(mems[i]).free,
                                    GetUserFreeBusyResponse(mems[i]).user_id) >> \o rest
             ELSE rest

UcFreeSets == {CompatibleInstances_new(CellList(F, FALSE)) : F \in SUBSET (0..(UcCells - 1))}

UcMembers == {UserFreeEvents(f, u) : f \in UcFreeSets, u \in Users}

\* the futures are created, one per member of the service, and join_all awaits
InitUseCase ==
    /\ members \in SeqUpTo(UcMembers, MaxMembers)
    /\ uc_options = BookingSlotsOptions(0, UcCells, 1, 1)
    /\ status = [i \in 1..Len(members) |-> "pending"]
    /\ completion = <<>>
    /\ uc_pc = "joining" /\ users_freebusy = <<>> /\ uc_slots = <<>>
    /\ IvIdle /\ BsIdle /\ RmIdle /\ ExIdle /\ SdIdle /\ QvIdle /\ UeIdle /\ RiIdle /\ DsIdle /\ UsIdle /\ GsIdle

\* the free/busy use case of one member completes with Ok
FreeBusyOk ==
    \E i \in 1..Len(members) :
        /\ uc_pc = "joining" /\ status[i] = "pending"
        /\ status' = [status EXCEPT ![i] = "ok"]
        /\ completion' = Append(completion, i)
        /\ UNCHANGED <<uc_pc, members, uc_options, users_freebusy, uc_slots>>
        /\ UNCHANGED OutsideUc

\* the free/busy use case of one member completes with Err
FreeBusyErr ==
    \E i \in 1..Len(members) :
        /\ uc_pc = "joining" /\ status[i] = "pending"
        /\ status' = [status EXCEPT ![i] = "err"]
        /\ completion' = Append(completion, i)
        /\ UNCHANGED <<uc_pc, members, uc_options, users_freebusy, uc_slots>>
        /\ UNCHANGED OutsideUc

\* join_all returns; the results are collected and the slots computed
JoinStep ==
    /\ uc_pc = "joining"
    /\ \A i \in 1..Len(members) : status[i] # "pending"
    /\ LET collected == collect_users_freebusy(join_all(Len(members), completion),
                                               members, status)
       IN  /\ users_freebusy' = collected
           /\ uc_slots' = get_service_bookingslots(collected, uc_options)
    /\ uc_pc' = "done"
    /\ UNCHANGED <<members, uc_options, status, completion>>
    /\ UNCHANGED OutsideUc

NextUseCase == FreeBusyOk \/ FreeBusyErr \/ JoinStep

SpecUseCase == InitUseCase /\ [][NextUseCase]_vars

\* the user ids of the members i..n, in member order, whose free/busy
\* succeeded and whose own booking slots hold the start c
RECURSIVE MembersAt(_, _)
MembersAt(c, i) ==
    IF i > Len(members) THEN <<>>
    ELSE IF status[i] = "ok" /\ c \in SlotStarts(members[i], uc_options)
         THEN <<members[i].user_id>> \o MembersAt(c, i + 1)
         ELSE MembersAt(c, i + 1)

\* C8: whatever the order in which the per-member free/busy computations
\* complete, the use case returns the slots ascending by start and, in each
\* slot, the user ids in the member order of the service.
C8_UserIdsInMemberOrder ==
    uc_pc = "done"
    => /\ \A i \in 1..(Len(uc_slots) - 1) : uc_slots[i].start < uc_slots[i + 1].start
       /\ \A i \in 1..Len(uc_slots) :
              uc_slots[i].user_ids = MembersAt(uc_slots[i].start, 1)

\* the second member completed first and shares a slot with the first
C8_Witness ==
    /\ uc_pc = "done" /\ completion = <<2, 1>>
    /\ members[1].user_id = "u1" /\ members[2].user_id = "u2"
    /\ \E i \in 1..Len(uc_slots) : uc_slots[i].user_ids = <<"u1", "u2">>

(***************************************************************************)
(* The reminder dispatch job, job_schedulers.rs                            *)
(***************************************************************************)
Accounts == {"a1", "a2"}

AccountOrder == <<"a1", "a2">>

Reminder(i, a, t) == [id |-> i, account |-> a, remind_at |-> t]

\* GetUpcomingRemindersUseCase: the rows with remind_at <= now, read and
\* deleted in one step
due_reminders(rows, now) == {r \in rows : r.remind_at <= now}

\* the reminders of a claim grouped by account: (account, reminder ids)
RECURSIVE group_by_account(_, _)
group_by_account(rows, accs) ==
    IF accs = <<>> THEN <<>>
    ELSE LET mine == {r.id : r \in {x \in rows : x.account = Head(accs)}}
         IN  (IF mine = {} THEN <<>> ELSE << [account |-> Head(accs), ids |-> mine] >>)
             \o group_by_account(rows, Tail(accs))

\* the for loop that does not move on to the next account
next_account_reminders_same(account_reminders) == account_reminders

\* for (acc, reminders) in account_reminders.0: each pair is taken once
next_account_reminders(account_reminders) == Tail(account_reminders)

\* a failed POST ends the for loop
after_post_error_returns(account_reminders, ok) ==
    IF ok THEN next_account_reminders(account_reminders) ELSE <<>>

\* if let Err(e) = client.post(..).send_json(..).await { println!(..) }: the
\* error is printed and the loop goes on with the next pair
after_post(account_reminders, ok) == next_account_reminders(account_reminders)

InitReminders ==
    /\ rm_now = 0
    /\ \E acc \in [1..NumReminders -> Accounts] : \E at \in [1..NumReminders -> 1..MaxTicks] :
           reminders = {Reminder(i, acc[i], at[i]) : i \in 1..NumReminders}
    /\ webhook \in [Accounts -> BOOLEAN]
    /\ tasks = <<>>
    /\ claimed_by = [i \in 1..NumReminders |-> {}]
    /\ post_count = [i \in 1..NumReminders |-> 0]
    /\ run_claim = <<>>
    /\ post_log = <<>>
    /\ IvIdle /\ BsIdle /\ UcIdle /\ ExIdle /\ SdIdle /\ QvIdle /\ UeIdle /\ RiIdle /\ DsIdle /\ UsIdle /\ GsIdle

\* minutely_interval.tick(): one more task is spawned, whatever the earlier
\* tasks are doing
MinuteTick ==
    /\ rm_now < MaxTicks
    /\ rm_now' = rm_now + 1
    /\ tasks' = Append(tasks, [pc |-> "spawned", account_reminders |-> <<>>])
    /\ run_claim' = Append(run_claim, <<>>)
    /\ post_log' = Append(post_log, <<>>)
    /\ UNCHANGED <<reminders, webhook, claimed_by, post_count>>
    /\ UNCHANGED OutsideRm

\* execute(GetUpcomingRemindersUseCase) returns Ok: the due rows are claimed
ClaimReminders ==
    \E t \in 1..Len(tasks) :
        /\ tasks[t].pc = "spawned"
        /\ LET due == due_reminders(reminders, rm_now)
           IN  /\ reminders' = reminders \ due
               /\ claimed_by' = [i \in 1..NumReminders |->
                                    IF \E r \in due : r.id = i
                                    THEN claimed_by[i] \cup {t} ELSE claimed_by[i]]
               /\ tasks' = [tasks EXCEPT ![t] =
                               [pc |-> "delay",
                                account_reminders |-> group_by_account(due, AccountOrder)]]
               /\ run_claim' = [run_claim EXCEPT ![t] = group_by_account(due, AccountOrder)]
        /\ UNCHANGED <<rm_now, webhook, post_count, post_log>>
        /\ UNCHANGED OutsideRm

\* execute(GetUpcomingRemindersUseCase) returns Err: the task returns
ClaimFails ==
    \E t \in 1..Len(tasks) :
        /\ tasks[t].pc = "spawned"
        /\ tasks' = [tasks EXCEPT ![t].pc = "done"]
        /\ UNCHANGED <<rm_now, reminders, webhook, claimed_by, post_count, run_claim, post_log>>
        /\ UNCHANGED OutsideRm

\* delay_until(send_instant) is over
DelayOver ==
    \E t \in 1..Len(tasks) :
        /\ tasks[t].pc = "delay"
        /\ tasks' = [tasks EXCEPT ![t].pc = "sending"]
        /\ UNCHANGED <<rm_now, reminders, webhook, claimed_by, post_count, run_claim, post_log>>
        /\ UNCHANGED OutsideRm

\* one round of the for loop, account without webhook: continue
SkipAccount ==
    \E t \in 1..Len(tasks) :
        /\ tasks[t].pc = "sending" /\ tasks[t].account_reminders # <<>>
        /\ ~webhook[Head(tasks[t].account_reminders).account]
        /\ tasks' = [tasks EXCEPT ![t].account_reminders =
                        next_account_reminders(tasks[t].account_reminders)]
        /\ UNCHANGED <<rm_now, reminders, webhook, claimed_by, post_count, run_claim, post_log>>
        /\ UNCHANGED OutsideRm

\* one round of the for loop, account with webhook: the POST is sent; it
\* succeeds, or it fails and the error is printed
PostReminders ==
    \E t \in 1..Len(tasks) :
        /\ tasks[t].pc = "sending" /\ tasks[t].account_reminders # <<>>
        /\ webhook[Head(tasks[t].account_reminders).account]
        /\ post_count' = [i \in 1..NumReminders |->
                             IF i \in Head(tasks[t].account_reminders).ids
                             THEN post_count[i] + 1 ELSE post_count[i]]
        /\ \E ok \in BOOLEAN :
               /\ post_log' = [post_log EXCEPT ![t] =
                      Append(@, [account |-> Head(tasks[t].account_reminders).account,
                                 ok |-> ok])]
               /\ tasks' = [tasks EXCEPT ![t].account_reminders =
                               after_post(tasks[t].account_reminders, ok)]
        /\ UNCHANGED <<rm_now, reminders, webhook, claimed_by, run_claim>>
        /\ UNCHANGED OutsideRm

\* the for loop is over: the task ends
TaskEnds ==
    \E t \in 1..Len(tasks) :
        /\ tasks[t].pc = "sending" /\ tasks[t].account_reminders = <<>>
        /\ tasks' = [tasks EXCEPT ![t].pc = "done"]
        /\ UNCHANGED <<rm_now, reminders, webhook, claimed_by, post_count, run_claim, post_log>>
        /\ UNCHANGED OutsideRm

NextReminders ==
    \/ MinuteTick
    \/ ClaimReminders
    \/ ClaimFails
    \/ DelayOver
    \/ SkipAccount
    \/ PostReminders
    \/ TaskEnds

SpecReminders == InitReminders /\ [][NextReminders]_vars

\* C10: across all minute ticks, whose tasks may overlap, no reminder is
\* claimed by two dispatch runs and no reminder is in the payload of more
\* than one webhook POST.
C10_ReminderClaimedAndPostedOnce ==
    \A i \in DOMAIN claimed_by :
        /\ Cardinality(claimed_by[i]) <= 1
        /\ post_count[i] <= 1
        /\ post_count[i] = 1 => claimed_by[i] # {}
        /\ claimed_by[i] # {} => \A r \in reminders : r.id # i

\* two tasks overlap: the second has claimed and posted a reminder while the
\* first, which claimed another one, has not sent yet
C10_Witness ==
    /\ Len(tasks) >= 2
    /\ tasks[1].pc = "delay" /\ tasks[1].account_reminders # <<>>
    /\ \E i \in DOMAIN claimed_by : claimed_by[i] = {2} /\ post_count[i] = 1

\* the accounts of the groups that have a webhook, in order
RECURSIVE WebhookAccounts(_)
WebhookAccounts(account_reminders) ==
    IF account_reminders = <<>> THEN <<>>
    ELSE (IF webhook[Head(account_reminders).account]
          THEN <<Head(account_reminders).account>> ELSE <<>>)
         \o WebhookAccounts(Tail(account_reminders))

\* C11: in one dispatch run a failed POST is only logged: the POSTs sent so
\* far followed by the POSTs still to send are exactly one POST per claimed
\* account with a webhook, whatever the outcomes (no retry, no stop, none for
\* an account without webhook, at most one per account), the task ends only
\* when none is left, and the next minute tick is never blocked.
C11_FailedPostOnlyLogged ==
    /\ \A t \in 1..Len(tasks) :
          /\ tasks[t].pc \in {"delay", "sending"} =>
                [k \in 1..Len(post_log[t]) |-> post_log[t][k].account]
                    \o WebhookAccounts(tasks[t].account_reminders)
                  = WebhookAccounts(run_claim[t])
          /\ tasks[t].pc = "done" =>
                [k \in 1..Len(post_log[t]) |-> post_log[t][k].account]
                  = WebhookAccounts(run_claim[t])
          /\ \A j, k \in 1..Len(post_log[t]) :
                j # k => post_log[t][j].account # post_log[t][k].account
    /\ (tasks # <<>> /\ rm_now < MaxTicks) => ENABLED MinuteTick

\* a run whose first POST failed has sent the POST of the next account and
\* ended, and a later tick has spawned its task
C11_Witness ==
    /\ Len(tasks) >= 2
    /\ tasks[1].pc = "done"
    /\ Len(post_log[1]) = 2
    /\ ~post_log[1][1].ok /\ post_log[1][2].ok

(***************************************************************************)
(* The reminder expansion job, job_schedulers.rs                           *)
(***************************************************************************)
\* Duration::from_secs(30 * 60 * 1000): the period of the interval, seconds
ExpansionPeriodSecs == 30 * 60 * 1000

\* actix_web::rt::time::interval(period): the first tick completes at once,
\* every later tick one period after the one before it
interval_first_deadline(now) == now

interval_next_deadline(deadline, period) == deadline + period

\* what one execution of SyncEventRemindersUseCase can be: its outcome and
\* the seconds it takes
ExecutionOutcomes == [ok : BOOLEAN, secs : 0..MaxExecSecs]

InitExpansion ==
    /\ ex_pc = "tick"
    /\ ex_time = 0
    /\ ex_deadline = interval_first_deadline(0)
    /\ ex_log = <<>>
    /\ IvIdle /\ BsIdle /\ UcIdle /\ RmIdle /\ SdIdle /\ QvIdle /\ UeIdle /\ RiIdle /\ DsIdle /\ UsIdle /\ GsIdle

\* interval.tick().await returns at the deadline (at once if it is past)
ExpansionTick ==
    /\ ex_pc = "tick"
    /\ Len(ex_log) < MaxExecutions
    /\ ex_time' = Max(ex_time, ex_deadline)
    /\ ex_deadline' = interval_next_deadline(ex_deadline, ExpansionPeriodSecs)
    /\ ex_pc' = "execute"
    /\ UNCHANGED ex_log
    /\ UNCHANGED OutsideEx

\* let _ = execute(usecase, &ctx).await: the outcome is dropped
ExpansionExecute ==
    /\ ex_pc = "execute"
    /\ \E o \in ExecutionOutcomes :
           /\ ex_log' = Append(ex_log, [at |-> ex_time, ok |-> o.ok])
           /\ ex_time' = ex_time + o.secs
    /\ ex_pc' = "tick"
    /\ UNCHANGED ex_deadline
    /\ UNCHANGED OutsideEx

NextExpansion ==
    \/ ExpansionTick
    \/ ExpansionExecute

SpecExpansion == InitExpansion /\ [][NextExpansion]_vars

\* C12: two consecutive executions of SyncEventReminders by the expansion
\* job are 1800 seconds (30 minutes) apart, whatever the outcome of the
\* previous execution.
C12_ExpansionEvery30Minutes ==
    \A k \in 1..(Len(ex_log) - 1) : ex_log[k + 1].at - ex_log[k].at = 1800

(***************************************************************************)
(* get_start_delay, job_schedulers.rs                                      *)
(***************************************************************************)
\* the comparison with >= in place of >
get_start_delay_at_least(now, secs_before) ==
    LET secs_to_next_minute == 60 - ((now \div 1000) % 60)
    IN  IF secs_to_next_minute >= secs_before
        THEN secs_to_next_minute - secs_before
        ELSE secs_to_next_minute + (60 - secs_before)

get_start_delay(now, secs_before) ==
    LET secs_to_next_minute == 60 - ((now \div 1000) % 60)
    IN  IF secs_to_next_minute > secs_before
        THEN secs_to_next_minute - secs_before
        ELSE secs_to_next_minute + (60 - secs_before)

\* now_ts in milliseconds: every second up to MaxNowSecs, at the start, just
\* after the start and at the end of the second
NowTimestamps == {sec * 1000 + ms : sec \in 0..MaxNowSecs, ms \in {0, 1, 999}}

\* secs_before_min in 0..=60
SecsBeforeMin == 0..60

InitStartDelay ==
    /\ sd_pc = "input"
    /\ now_ts \in NowTimestamps
    /\ secs_before_min \in SecsBeforeMin
    /\ start_delay = 0
    /\ IvIdle /\ BsIdle /\ UcIdle /\ RmIdle /\ ExIdle /\ QvIdle /\ UeIdle /\ RiIdle /\ DsIdle /\ UsIdle /\ GsIdle

StartDelayStep ==
    /\ sd_pc = "input"
    /\ start_delay' = get_start_delay(now_ts, secs_before_min)
    /\ sd_pc' = "done"
    /\ UNCHANGED <<now_ts, secs_before_min>>
    /\ UNCHANGED OutsideSd

NextStartDelay ==
    \/ StartDelayStep

SpecStartDelay == InitStartDelay /\ [][NextStartDelay]_vars

\* C13: for every now_ts and every secs_before_min in 0..=60 the delay d is
\* in 1..60 and now_ts/1000 + d + secs_before_min is a multiple of 60; the
\* pairs (50000,5), (50000,10), (59000,1) give 5, 60, 60.
C13_StartDelayAligned ==
    sd_pc = "done" =>
        /\ 1 <= start_delay /\ start_delay <= 60
        /\ ((now_ts \div 1000) + start_delay + secs_before_min) % 60 = 0
        /\ (now_ts = 50000 /\ secs_before_min = 5) => start_delay = 5
        /\ (now_ts = 50000 /\ secs_before_min = 10) => start_delay = 60
        /\ (now_ts = 59000 /\ secs_before_min = 1) => start_delay = 60

\* the delay of (50000, 10): the seconds to the next minute equal the offset
C13_Witness ==
    sd_pc = "done" /\ now_ts = 50000 /\ secs_before_min = 10 /\ start_delay = 60

(***************************************************************************)
(* Validation of a booking-slots query, booking_slots.rs and               *)
(* get_service_bookingslots.rs                                             *)
(***************************************************************************)
\* let min_interval = 1000 * 60 * 10
min_interval == 1000 * 60 * 10

\* let max_interval = 1000 * 60 * 60
max_interval == 1000 * 60 * 60

\* the upper bound compared with < in place of <=
validate_slots_interval_max_excluded(interval) ==
    interval >= min_interval /\ interval < max_interval

validate_slots_interval(interval) ==
    interval >= min_interval /\ interval <= max_interval

\* a query: iana_tz is "none" (None), "valid" or "invalid" (does not parse);
\* date_ok says whether date::is_valid_date accepts the date
BookingSlotsQuery(date_ok, iana_tz, duration, interval) ==
    [date_ok |-> date_ok, iana_tz |-> iana_tz, duration |-> duration, interval |-> interval]

\* Err(BookingQueryError) or Ok(BookingTimespan)
validate_bookingslots_query(q) ==
    IF ~validate_slots_interval(q.interval) THEN "InvalidInterval"
    ELSE IF q.iana_tz = "invalid" THEN "InvalidTimezone"
    ELSE IF ~q.date_ok THEN "InvalidDate"
    ELSE "Ok"

\* the intervals around both limits, and zero and below
QueryIntervals ==
    {min_interval + d : d \in (0 - IntervalMargin)..IntervalMargin}
    \cup {max_interval + d : d \in (0 - IntervalMargin)..IntervalMargin}
    \cup {0 - 1, 0, 1}

Queries ==
    {BookingSlotsQuery(d, tz, 1, i) :
        d \in BOOLEAN, tz \in {"none", "valid", "invalid"}, i \in QueryIntervals}

InitQuery ==
    /\ q_pc = "validate"
    /\ query \in Queries
    /\ service_exists \in BOOLEAN
    /\ q_timespan = <<>>
    /\ q_result = "none"
    /\ IvIdle /\ BsIdle /\ UcIdle /\ RmIdle /\ ExIdle /\ SdIdle /\ UeIdle /\ RiIdle /\ DsIdle /\ UsIdle /\ GsIdle

\* execute, up to the first await: validate_slots_interval and
\* validate_bookingslots_query
ValidateQueryStep ==
    /\ q_pc = "validate"
    /\ IF ~validate_slots_interval(query.interval)
       THEN q_result' = "InvalidIntervalError" /\ q_pc' = "done" /\ UNCHANGED q_timespan
       ELSE LET v == validate_bookingslots_query(query)
            IN  /\ q_timespan' = IF v = "Ok" THEN <<"timespan">> ELSE <<>>
                /\ q_result' = IF v = "Ok" THEN q_result ELSE v \o "Error"
                /\ q_pc' = IF v = "Ok" THEN "find_service" ELSE "done"
    /\ UNCHANGED <<query, service_exists>>
    /\ UNCHANGED OutsideQv

\* ctx.repos.service_repo.find(&self.service_id).await
FindServiceStep ==
    /\ q_pc = "find_service"
    /\ IF service_exists
       THEN q_pc' = "free_busy" /\ UNCHANGED q_result
       ELSE q_pc' = "done" /\ q_result' = "ServiceNotFoundError"
    /\ UNCHANGED <<query, service_exists, q_timespan>>
    /\ UNCHANGED OutsideQv

NextQuery ==
    \/ ValidateQueryStep
    \/ FindServiceStep

SpecQuery == InitQuery /\ [][NextQuery]_vars

\* C14: a query is rejected with InvalidInterval exactly when
\* interval < 600000 or interval > 3600000; the interval is checked first,
\* so with an invalid interval the result is InvalidInterval whatever the
\* date, the timezone and the service, and neither the service lookup nor
\* the slot enumeration is reached.
C14_InvalidIntervalFirst ==
    q_pc # "idle" =>
        LET bad == query.interval < 600000 \/ query.interval > 3600000
        IN  /\ (validate_bookingslots_query(query) = "InvalidInterval") <=> bad
            /\ q_pc # "validate" => ((q_result = "InvalidIntervalError") <=> bad)
            /\ bad => q_pc \in {"validate", "done"}

\* the interval one millisecond over the upper limit, with an invalid date,
\* an invalid timezone and no service: InvalidInterval
C14_Witness ==
    /\ q_pc = "done" /\ q_result = "InvalidIntervalError"
    /\ query.interval = 3600001 /\ ~query.date_ok /\ query.iana_tz = "invalid"
    /\ ~service_exists

(***************************************************************************)
(* Partial failure in the booking-slots use case                           *)
(***************************************************************************)
\* the ids in the user_ids of the returned slots
SlotUserIds == UNION {Elems(uc_slots[k].user_ids) : k \in 1..Len(uc_slots)}

\* C15 as first stated: when the free/busy computation of some members fails
\* the use case returns Ok and the id of a failed member is in no slot's
\* user_ids.
C15_FailedMemberInNoSlot ==
    uc_pc = "done" =>
        \A i \in 1..Len(members) : status[i] = "err" => members[i].user_id \notin SlotUserIds

\* C15: when the free/busy computation of some members fails the use case
\* still returns Ok; the slots are those of the members that succeeded: each
\* id in a slot is the id of a member that succeeded and has a slot at that
\* start, each such member is in its slots, and the id of a failed member is
\* in no slot unless a member that succeeded has the same id; with no member
\* succeeding the slot list is empty.
C15_SlotsFromSucceededMembers ==
    uc_pc = "done" =>
        /\ \A k \in 1..Len(uc_slots) : \A u \in Elems(uc_slots[k].user_ids) :
              \E i \in 1..Len(members) :
                  /\ status[i] = "ok" /\ members[i].user_id = u
                  /\ uc_slots[k].start \in SlotStarts(members[i], uc_options)
        /\ \A i \in 1..Len(members) :
              status[i] = "ok" =>
                  \A c \in SlotStarts(members[i], uc_options) :
                      \E k \in 1..Len(uc_slots) :
                          uc_slots[k].start = c /\ members[i].user_id \in Elems(uc_slots[k].user_ids)
        /\ \A i \in 1..Len(members) :
              (status[i] = "err" /\ \A j \in 1..Len(members) :
                                       status[j] = "ok" => members[j].user_id # members[i].user_id)
                  => members[i].user_id \notin SlotUserIds
        /\ (\A i \in 1..Len(members) : status[i] = "err") => uc_slots = <<>>

\* the first member, who has free time, failed; the second succeeded and is
\* alone in the slots
C15_Witness ==
    /\ uc_pc = "done" /\ Len(members) = 2
    /\ status[1] = "err" /\ status[2] = "ok"
    /\ members[1].user_id = "u1" /\ members[2].user_id = "u2"
    /\ members[1].free_events # <<>>
    /\ uc_slots # <<>> /\ SlotUserIds = {"u2"}

(***************************************************************************)
(* UpdateEventUseCase, update_event.rs                                     *)
(*                                                                         *)
(* An Option is the empty sequence (None) or a one-element sequence.       *)
(* ue_event is the event stored in the event repository, ue_calendar tells *)
(* whether its calendar is in the calendar repository, ue_clock is         *)
(* ctx.sys.get_timestamp_millis().  ue_request is the use case built by    *)
(* the controller, ue_before the stored event when the request arrived,    *)
(* ue_result the Result of execute and ue_response the HTTP answer.        *)
(***************************************************************************)
\* CalendarEventReminder::is_valid: a reminder is "valid" or "invalid"
reminder_is_valid(reminder) == reminder = "valid"

\* CalendarEvent::set_recurrence: an acceptable rule is stored and true is
\* returned, another one is refused; the exdates are left alone
set_recurrence(e, rrule_opts) ==
    IF rrule_opts = "invalid" THEN [event |-> e, valid |-> FALSE]
    ELSE [event |-> [e EXCEPT !.recurrence = <<rrule_opts>>], valid |-> TRUE]

\* the lookup without the comparison of the user ids
find_event_of_anyone(stored, event_id, user_id) ==
    IF stored.id = event_id THEN <<stored>> ELSE <<>>

\* ctx.repos.event_repo.find(&event_id): Some(event) if event.user_id == *user_id
find_event_of_user(stored, event_id, user_id) ==
    IF stored.id = event_id /\ stored.user_id = user_id THEN <<stored>> ELSE <<>>

\* the new start_ts is stored and the exdates are kept
apply_start_ts_exdates_kept(e, start_ts) ==
    IF start_ts # <<>> /\ e.start_ts # start_ts[1]
    THEN [event |-> [e EXCEPT !.start_ts = start_ts[1]], change |-> TRUE]
    ELSE [event |-> e, change |-> FALSE]

\* if let Some(start_ts) = start_ts { if e.start_ts != *start_ts { .. } }
apply_start_ts(e, start_ts) ==
    IF start_ts # <<>> /\ e.start_ts # start_ts[1]
    THEN [event |-> [e EXCEPT !.start_ts = start_ts[1], !.exdates = <<>>], change |-> TRUE]
    ELSE [event |-> e, change |-> FALSE]

\* if let Some(duration) = duration { if e.duration != *duration { .. } }
apply_duration(e, duration) ==
    IF duration # <<>> /\ e.duration # duration[1]
    THEN [event |-> [e EXCEPT !.duration = duration[1]], change |-> TRUE]
    ELSE [event |-> e, change |-> FALSE]

\* Some(v) replaces the field, None leaves it
SetIfSome(e, field, opt) == IF opt = <<>> THEN e ELSE [e EXCEPT ![field] = opt[1]]

\* the result of execute and the event in the repository after it
UpdateOutcome(result, stored) == [result |-> result, stored |-> stored]

\* UpdateEventUseCase::execute
update_event_execute(stored, calendar_found, req, now, save_ok) ==
    LET found == find_event_of_user(stored, req.event_id, req.user_id)
    IN  IF found = <<>> THEN UpdateOutcome("NotFound", stored)
        ELSE
        LET e1 == SetIfSome(SetIfSome(SetIfSome(found[1], "is_service", req.is_service),
                                      "exdates", req.exdates),
                            "metadata", req.metadata)
        IN  IF e1.reminder # <<>> /\ ~reminder_is_valid(e1.reminder[1])
            THEN UpdateOutcome("InvalidReminder", stored)
            ELSE
            LET e2 == [e1 EXCEPT !.reminder = req.reminder]
            IN  IF ~calendar_found THEN UpdateOutcome("NotFound", stored)
                ELSE
                LET s  == apply_start_ts(e2, req.start_ts)
                    d  == apply_duration(s.event, req.duration)
                    start_or_duration_change == s.change \/ d.change
                    e3 == SetIfSome(d.event, "busy", req.busy)
                    r  == IF req.recurrence # <<>>
                          THEN set_recurrence(e3, req.recurrence[1])
                          ELSE IF start_or_duration_change /\ e3.recurrence # <<>>
                          THEN set_recurrence(e3, e3.recurrence[1])
                          ELSE [event |-> e3, valid |-> TRUE]
                IN  IF ~r.valid THEN UpdateOutcome("InvalidRecurrenceRule", stored)
                    ELSE IF ~save_ok THEN UpdateOutcome("StorageError", stored)
                    ELSE UpdateOutcome("Ok", [r.event EXCEPT !.updated = now])

\* handle_error, and the Ok answer of the controller
handle_error(result) ==
    CASE result = "NotFound" -> "NotFound"
      [] result = "InvalidRecurrenceRule" -> "BadClientData"
      [] result = "InvalidReminder" -> "BadClientData"
      [] result = "StorageError" -> "InternalError"
      [] OTHER -> "Ok"

CalendarEvent(exdates, reminder, recurrence) ==
    [id |-> "e1", user_id |-> "u1", calendar_id |-> "c1", start_ts |-> 0, duration |-> 1,
     busy |-> FALSE, is_service |-> FALSE, metadata |-> "m0", exdates |-> exdates,
     reminder |-> reminder, recurrence |-> recurrence, created |-> 0, updated |-> 0]

\* the requests: the owner u1 or another user, the stored event e1 or an
\* unknown id, and every field absent or present; busy, is_service and
\* metadata, which are only copied, are present together
UpdateRequests ==
    {[user_id |-> u, event_id |-> id, start_ts |-> s, duration |-> d,
      busy |-> IF p THEN <<TRUE>> ELSE <<>>,
      is_service |-> IF p THEN <<TRUE>> ELSE <<>>,
      metadata |-> IF p THEN <<"m1">> ELSE <<>>,
      exdates |-> x, reminder |-> rem, recurrence |-> rec] :
        u \in {"u1", "u2"}, id \in {"e1", "e2"},
        s \in {<<>>, <<0>>, <<1>>}, d \in {<<>>, <<2>>}, p \in BOOLEAN,
        x \in {<<>>, << <<5>> >>},
        rem \in {<<>>, <<"valid">>, <<"invalid">>},
        rec \in {<<>>, <<"weekly">>, <<"invalid">>}}

\* an event created with a valid reminder or none
InitUpdateEvent ==
    /\ ue_pc = "ready"
    /\ \E x \in {<<>>, <<7>>} : \E rem \in {<<>>, <<"valid">>} : \E rec \in {<<>>, <<"daily">>} :
           ue_event = CalendarEvent(x, rem, rec)
    /\ ue_calendar \in BOOLEAN
    /\ ue_clock = 0
    /\ ue_request = <<>> /\ ue_before = <<>>
    /\ ue_result = "none" /\ ue_response = "none"
    /\ IvIdle /\ BsIdle /\ UcIdle /\ RmIdle /\ ExIdle /\ SdIdle /\ QvIdle /\ RiIdle /\ DsIdle /\ UsIdle /\ GsIdle

\* update_event_controller: the use case is built from the request
UpdateEventRequest ==
    /\ ue_pc = "ready" /\ ue_clock < MaxUpdateCalls
    /\ ue_request' \in UpdateRequests
    /\ ue_before' = ue_event
    /\ ue_clock' = ue_clock + 1
    /\ ue_pc' = "execute"
    /\ ue_result' = "none" /\ ue_response' = "none"
    /\ UNCHANGED <<ue_event, ue_calendar>>
    /\ UNCHANGED OutsideUe

\* execute(usecase, &ctx)
UpdateEventExecute ==
    /\ ue_pc = "execute"
    /\ \E save_ok \in BOOLEAN :
           LET out == update_event_execute(ue_event, ue_calendar, ue_request, ue_clock, save_ok)
           IN  ue_result' = out.result /\ ue_event' = out.stored
    /\ ue_pc' = "executed"
    /\ UNCHANGED <<ue_calendar, ue_clock, ue_request, ue_before, ue_response>>
    /\ UNCHANGED OutsideUe

\* the controller answers: Ok with the event, or handle_error
UpdateEventRespond ==
    /\ ue_pc = "executed"
    /\ ue_response' = handle_error(ue_result)
    /\ ue_pc' = "ready"
    /\ ue_request' = <<>> /\ ue_before' = <<>> /\ ue_result' = "none"
    /\ UNCHANGED <<ue_event, ue_calendar, ue_clock>>
    /\ UNCHANGED OutsideUe

NextUpdateEvent ==
    \/ UpdateEventRequest
    \/ UpdateEventExecute
    \/ UpdateEventRespond

SpecUpdateEvent == InitUpdateEvent /\ [][NextUpdateEvent]_vars

\* C16: after a successful UpdateEvent whose start_ts differs from the
\* stored one the saved event has no exdates, even when the request supplies
\* exdates; when the request gives a recurrence and does not change start_ts
\* the saved exdates are the ones of the request if it has them, else the
\* stored ones.
C16_ExdatesClearedOnStartChange ==
    (ue_pc = "executed" /\ ue_result = "Ok") =>
        LET start_changed == ue_request.start_ts # <<>>
                             /\ ue_request.start_ts[1] # ue_before.start_ts
        IN  /\ start_changed => ue_event.exdates = <<>>
            /\ (~start_changed /\ ue_request.recurrence # <<>>) =>
                   ue_event.exdates = IF ue_request.exdates # <<>>
                                      THEN ue_request.exdates[1] ELSE ue_before.exdates

\* the start moves from 0 to 1 in a request that also supplies exdates, for
\* an event that had one: the saved event has none
C16_Witness ==
    /\ ue_pc = "executed" /\ ue_result = "Ok"
    /\ ue_before.start_ts = 0 /\ ue_before.exdates = <<7>>
    /\ ue_request.start_ts = <<1>> /\ ue_request.exdates = << <<5>> >>
    /\ ue_event.start_ts = 1 /\ ue_event.exdates = <<>>

\* C17: UpdateEvent never persists an invalid reminder: a request of the
\* owner whose reminder is not valid returns InvalidReminder and leaves the
\* stored event as it was, so the stored reminder is always absent or valid.
C17_NoInvalidReminderStored ==
    /\ ue_pc # "idle" =>
          (ue_event.reminder = <<>> \/ reminder_is_valid(ue_event.reminder[1]))
    /\ (/\ ue_pc = "executed"
        /\ ue_request.reminder # <<>> /\ ~reminder_is_valid(ue_request.reminder[1])
        /\ ue_request.event_id = ue_before.id /\ ue_request.user_id = ue_before.user_id)
       => (ue_result = "InvalidReminder" /\ ue_event = ue_before)

\* C18: UpdateEvent for an event id that does not exist, or for an event of
\* another user, returns NotFound and saves nothing: the stored event, its
\* updated field included, is as before.
C18_OnlyOwnerMutates ==
    (/\ ue_pc = "executed"
     /\ (ue_request.event_id # ue_before.id \/ ue_request.user_id # ue_before.user_id))
    => /\ ue_result = "NotFound"
       /\ handle_error(ue_result) = "NotFound"
       /\ ue_event = ue_before

\* another user asks to change every field of the event e1 of u1
C18_Witness ==
    /\ ue_pc = "executed" /\ ue_result = "NotFound"
    /\ ue_request.event_id = "e1" /\ ue_request.user_id = "u2"
    /\ ue_before.user_id = "u1" /\ ue_calendar
    /\ ue_request.start_ts = <<1>> /\ ue_request.busy = <<TRUE>>
    /\ ue_request.reminder = <<"valid">> /\ ue_request.recurrence = <<"weekly">>
    /\ ue_event = ue_before

(***************************************************************************)
(* free.remove_intances(&other, skip) on any two sets built by             *)
(* CompatibleInstances::new, whatever the tags of their instances          *)
(***************************************************************************)
InitSubtractAny ==
    /\ prev \in OtherSets
    /\ busy_out \in OtherSets
    /\ op = "sets" /\ events = <<>> /\ arg = <<>> /\ skip = 0
    /\ ret = FALSE /\ panicked = FALSE
    /\ BsIdle /\ UcIdle /\ RmIdle /\ ExIdle /\ SdIdle /\ QvIdle /\ UeIdle /\ RiIdle /\ DsIdle /\ UsIdle /\ GsIdle

SubtractAnyStep ==
    /\ op = "sets"
    /\ \E skp \in 0..Len(busy_out) :
           LET r == remove_intances(prev, busy_out, skp)
           IN  /\ skip' = skp
               /\ events' = r.events
               /\ panicked' = r.panic
    /\ op' = "remove_intances_any"
    /\ UNCHANGED <<arg, prev, ret, busy_out>>
    /\ UNCHANGED OutsideIv

NextSubtractAny ==
    \/ SubtractAnyStep

SpecSubtractAny == InitSubtractAny /\ [][NextSubtractAny]_vars

\* C19: for all sets free and other built by CompatibleInstances::new from
\* instances with start_ts < end_ts, and every skip, remove_intances returns
\* without panicking: the assertions on the lengths 1 and 2 and the unwraps
\* of remove_instances hold.
C19_SubtractionNeverPanics ==
    op = "remove_intances_any" => ~panicked

\* a free instance is split by an instance strictly inside it, and the
\* second piece is cut again by the next instance
C19_Witness ==
    /\ op = "remove_intances_any" /\ ~panicked /\ skip = 0
    /\ prev = << EventInstance(0, 3, FALSE) >>
    /\ busy_out = << EventInstance(1, 2, TRUE), EventInstance(2, 3, FALSE) >>
    /\ events = << EventInstance(0, 1, FALSE) >>

(***************************************************************************)
(* get_free_busy on a list that holds a busy instance of duration 0        *)
(***************************************************************************)
\* a busy instance with start_ts = end_ts = p
ZeroLengthBusy(p) == EventInstance(p, p, TRUE)

InitZeroBusy ==
    /\ \E F \in SUBSET Cells : \E B \in {{}} \cup {{c} : c \in Cells} : \E p \in 0..MaxCell :
           arg = CellList(F, FALSE) \o CellList(B, TRUE) \o <<ZeroLengthBusy(p)>>
    /\ op = "input_zero" /\ events = <<>> /\ skip = 0 /\ prev = <<>>
    /\ ret = FALSE /\ panicked = FALSE /\ busy_out = <<>>
    /\ BsIdle /\ UcIdle /\ RmIdle /\ ExIdle /\ SdIdle /\ QvIdle /\ UeIdle /\ RiIdle /\ DsIdle /\ UsIdle /\ GsIdle

\* get_free_busy on the list; prev is the free set of the list without the
\* instance of duration 0
ZeroBusyStep ==
    /\ op = "input_zero"
    /\ LET fb == get_free_busy(arg)
           without == get_free_busy(SubSeq(arg, 1, Len(arg) - 1))
       IN  /\ events' = fb.free
           /\ busy_out' = fb.busy
           /\ panicked' = fb.panic
           /\ prev' = without.free
    /\ op' = "get_free_busy_zero"
    /\ UNCHANGED <<arg, skip, ret>>
    /\ UNCHANGED OutsideIv

NextZeroBusy ==
    \/ ZeroBusyStep

SpecZeroBusy == InitZeroBusy /\ [][NextZeroBusy]_vars

\* C20: get_free_busy on a list that contains a busy instance with
\* start_ts = end_ts, wherever it lies relative to the free instances,
\* completes and returns the same free set as without that instance.
C20_ZeroLengthBusyIgnored ==
    op = "get_free_busy_zero" => (~panicked /\ events = prev)

(***************************************************************************)
(* CompatibleInstances::new applied to its own result                      *)
(***************************************************************************)
\* CompatibleInstances::new(CompatibleInstances::new(xs).inner()); prev is
\* the result of the first call
NewAgainStep ==
    /\ op = "new"
    /\ op' = "new_again"
    /\ prev' = events
    /\ events' = CompatibleInstances_new(events)
    /\ UNCHANGED <<arg, skip, ret, panicked, busy_out>>
    /\ UNCHANGED OutsideIv

NextNewTwice ==
    \/ NewStep
    \/ NewAgainStep

SpecNewTwice == InitNew /\ [][NextNewTwice]_vars

\* C21: for every list xs of instances with start_ts < end_ts, of any tags
\* and in any order, new(new(xs).inner()) equals new(xs).
C21_NewIdempotent ==
    op = "new_again" => events = prev

\* an unsorted list of both tags of which two instances were merged
C21_Witness ==
    /\ op = "new_again" /\ events = prev
    /\ arg = << EventInstance(2, 3, FALSE), EventInstance(0, 1, TRUE),
                EventInstance(1, 2, FALSE) >>
    /\ events = << EventInstance(0, 1, TRUE), EventInstance(1, 3, FALSE) >>

(***************************************************************************)
(* free.remove_intances(&busy, 0) applied twice                            *)
(***************************************************************************)
\* the second free.remove_intances(&busy, 0); prev is the set after the
\* first one
SubtractAgainStep ==
    /\ op = "remove_intances" /\ skip = 0 /\ ~panicked
    /\ LET r == remove_intances(events, busy_out, 0)
       IN  /\ events' = r.events
           /\ panicked' = r.panic
    /\ prev' = events
    /\ op' = "remove_intances_again"
    /\ UNCHANGED <<arg, skip, ret, busy_out>>
    /\ UNCHANGED OutsideIv

NextSubtractTwice ==
    \/ SubtractStep
    \/ SubtractAgainStep

SpecSubtractTwice == InitSubtract /\ [][NextSubtractTwice]_vars

InitPushContract ==
    /\ events \in {CompatibleInstances_new(xs) : xs \in SameTagLists} \cup OtherSets
    /\ op = "set" /\ arg = <<>> /\ skip = 0 /\ prev = <<>>
    /\ ret = FALSE /\ panicked = FALSE /\ busy_out = <<>>
    /\ BsIdle /\ UcIdle /\ RmIdle /\ ExIdle /\ SdIdle /\ QvIdle /\ UeIdle /\ RiIdle /\ DsIdle /\ UsIdle /\ GsIdle

\* self.push_front(x): prev is the set before the call
PushFrontOnce ==
    \E x \in Instances :
        LET r == push_front(events, x)
        IN  /\ op = "set"
            /\ op' = "push_front"
            /\ prev' = events
            /\ arg' = <<x>>
            /\ events' = r.events
            /\ ret' = r.ok
            /\ UNCHANGED <<skip, panicked, busy_out>>
            /\ UNCHANGED OutsideIv

\* self.push_back(x): prev is the set before the call
PushBackOnce ==
    \E x \in Instances :
        LET r == push_back(events, x)
        IN  /\ op = "set"
            /\ op' = "push_back"
            /\ prev' = events
            /\ arg' = <<x>>
            /\ events' = r.events
            /\ ret' = r.ok
            /\ UNCHANGED <<skip, panicked, busy_out>>
            /\ UNCHANGED OutsideIv

\* self.extend(o): prev is the set before the call, busy_out the set o
ExtendOnce ==
    \E o \in OtherSets :
        /\ op = "set"
        /\ op' = "extend_other"
        /\ prev' = events
        /\ busy_out' = o
        /\ events' = extend(events, o)
        /\ arg' = <<>> /\ ret' = FALSE
        /\ UNCHANGED <<skip, panicked>>
        /\ UNCHANGED OutsideIv

NextPushContract ==
    \/ PushFrontOnce
    \/ PushBackOnce
    \/ ExtendOnce

SpecPushContract == InitPushContract /\ [][NextPushContract]_vars

\* the items pushed back one after the other, each kept only if the set is
\* empty or its last instance ends at or before the start of the item
RECURSIVE PushedBackInOrder(_, _)
PushedBackInOrder(evs, items) ==
    IF items = <<>> THEN evs
    ELSE LET x == Head(items)
             accepted == evs = <<>> \/ evs[Len(evs)].end_ts <= x.start_ts
         IN  PushedBackInOrder(IF accepted THEN Append(evs, x) ELSE evs, Tail(items))

\* C23: push_front(x) returns true iff the set is empty or
\* x.end_ts <= first.start_ts, push_back(x) iff the set is empty or
\* last.end_ts <= x.start_ts; an accepted push inserts x unchanged at that
\* end (length + 1), a rejected push leaves the set unchanged, and
\* extend(other) is the push_back of other's items in order, the rejected
\* ones dropped.
C23_PushContract ==
    /\ (op = "push_front" /\ arg # <<>>) =>
          /\ ret <=> (prev = <<>> \/ arg[1].end_ts <= prev[1].start_ts)
          /\ events = IF ret THEN <<arg[1]>> \o prev ELSE prev
    /\ (op = "push_back" /\ arg # <<>>) =>
          /\ ret <=> (prev = <<>> \/ prev[Len(prev)].end_ts <= arg[1].start_ts)
          /\ events = IF ret THEN Append(prev, arg[1]) ELSE prev
    /\ op = "extend_other" => events = PushedBackInOrder(prev, busy_out)

\* extend drops the first item of the other set, which overlaps the last
\* instance, and appends the second, which touches it
C23_Witness ==
    /\ op = "extend_other"
    /\ prev = << EventInstance(0, 2, FALSE) >>
    /\ busy_out = << EventInstance(1, 2, TRUE), EventInstance(2, 3, FALSE) >>
    /\ events = << EventInstance(0, 2, FALSE), EventInstance(2, 3, FALSE) >>

\* C24: for every BookingSlot s returned over a coalesced free set,
\* s.available_until is the end_ts of the free instance that contains
\* [s.start, s.start + s.duration]; it is at least s.start + s.duration and
\* is not clamped to options.end_ts.
C24_AvailableUntilIsIntervalEnd ==
    bs_pc = "done"
    => \A k \in 1..Len(booking_slots) :
           LET s == booking_slots[k]
           IN  /\ \E i \in 1..Len(free_events) :
                      /\ free_events[i].start_ts <= s.start
                      /\ free_events[i].end_ts >= s.start + s.duration
                      /\ s.available_until = free_events[i].end_ts
               /\ \A i \in 1..Len(free_events) :
                      (free_events[i].start_ts <= s.start
                       /\ free_events[i].end_ts >= s.start + s.duration)
                      => s.available_until = free_events[i].end_ts
               /\ s.available_until >= s.start + s.duration

\* a slot whose free instance ends after the end of the window
C24_Witness ==
    /\ bs_pc = "done" /\ booking_slots # <<>>
    /\ \E k \in 1..Len(booking_slots) :
           /\ booking_slots[k].available_until > options.end_ts
           /\ booking_slots[k].start + booking_slots[k].duration <= options.end_ts

(***************************************************************************)
(* EventInstance::remove_instance on one free instance and one instance    *)
(***************************************************************************)
InitRemoveInstance ==
    /\ ri_pc = "input"
    /\ ri_free \in Instances
    /\ ri_instance \in Instances
    /\ ri_result = <<>>
    /\ IvIdle /\ BsIdle /\ UcIdle /\ RmIdle /\ ExIdle /\ SdIdle /\ QvIdle /\ UeIdle /\ DsIdle /\ UsIdle /\ GsIdle

RemoveInstanceStep ==
    /\ ri_pc = "input"
    /\ ri_result' = remove_instance(ri_free, ri_instance)
    /\ ri_pc' = "done"
    /\ UNCHANGED <<ri_free, ri_instance>>
    /\ UNCHANGED OutsideRi

NextRemoveInstance ==
    \/ RemoveInstanceStep

SpecRemoveInstance == InitRemoveInstance /\ [][NextRemoveInstance]_vars

\* the case the five rules give for a free instance f and an instance b
RuleCase(f, b) ==
    {k \in {"NoOverlap", "Empty", "Split", "OverlapEnd", "OverlapBeginning"} :
        \/ k = "NoOverlap" /\ (b.end_ts <= f.start_ts \/ b.start_ts > f.end_ts)
        \/ k = "Empty" /\ b.start_ts <= f.start_ts /\ b.end_ts >= f.end_ts
        \/ k = "Split" /\ b.start_ts > f.start_ts /\ b.end_ts < f.end_ts
        \/ k = "OverlapEnd" /\ f.start_ts < b.start_ts /\ b.start_ts <= f.end_ts
                            /\ f.end_ts <= b.end_ts
        \/ k = "OverlapBeginning" /\ b.start_ts <= f.start_ts /\ f.start_ts < b.end_ts
                                  /\ b.end_ts < f.end_ts}

\* the pieces the rules state for a case
RulePieces(k, f, b) ==
    CASE k = "Split" -> << EventInstance(f.start_ts, b.start_ts, FALSE),
                           EventInstance(b.end_ts, f.end_ts, FALSE) >>
      [] k = "OverlapEnd" -> << EventInstance(f.start_ts, b.start_ts, FALSE) >>
      [] k = "OverlapBeginning" -> << EventInstance(b.end_ts, f.end_ts, FALSE) >>
      [] OTHER -> <<>>

C26_OnlyRequestedFieldsChange ==
    (ue_pc = "executed" /\ ue_result = "Ok") =>
        LET start_changed == ue_request.start_ts # <<>>
                             /\ ue_request.start_ts[1] # ue_before.start_ts
        IN  /\ \A f \in {"start_ts", "duration", "busy", "is_service", "metadata"} :
                  ue_event[f] = IF ue_request[f] # <<>> THEN ue_request[f][1] ELSE ue_before[f]
            /\ \A f \in {"recurrence", "reminder"} :
                  ue_request[f] = <<>> => ue_event[f] = ue_before[f]
            /\ (ue_request.exdates = <<>> /\ ~start_changed) =>
                  ue_event.exdates = ue_before.exdates
            /\ \A f \in {"id", "calendar_id", "user_id", "created"} :
                  ue_event[f] = ue_before[f]

(***************************************************************************)
(* DeleteScheduleUseCase, delete_schedule.rs                               *)
(*                                                                         *)
(* ds_schedules is the set of the schedules in the schedule repository,    *)
(* ds_services the services of the service repository, each a sequence of  *)
(* members with a user_id and the set of its schedule_ids.  ds_request is  *)
(* the use case built by the controller, ds_before the two repositories    *)
(* when the request arrived, ds_result the Result of execute.              *)
(***************************************************************************)
Schedule(id, user_id) == [id |-> id, user_id |-> user_id]

\* the schedules that exist when the scenario starts
AllSchedules == {Schedule("s1", "u1"), Schedule("s2", "u2")}

ServiceResource(user_id, schedule_ids) == [user_id |-> user_id, schedule_ids |-> schedule_ids]

\* schedule_repo.find(&schedule_id)
schedule_repo_find(schedules, schedule_id) ==
    IF \E s \in schedules : s.id = schedule_id
    THEN << CHOOSE s \in schedules : s.id = schedule_id >> ELSE <<>>

\* schedule_repo.delete(&schedule_id)
schedule_repo_delete(schedules, schedule_id) == {s \in schedules : s.id # schedule_id}

\* service_repo.remove_schedule_from_services(&schedule_id): the id is taken
\* out of the schedule_ids of every member of every service
remove_schedule_from_services(services, schedule_id) ==
    [i \in 1..Len(services) |->
        [j \in 1..Len(services[i]) |->
            [services[i][j] EXCEPT !.schedule_ids = @ \ {schedule_id}]]]

\* the match without the comparison of the user ids
find_schedule_of_anyone(schedules, schedule_id, user_id) ==
    schedule_repo_find(schedules, schedule_id)

\* Some(schedule) if schedule.user_id == self.user_id
find_schedule_of_user(schedules, schedule_id, user_id) ==
    LET found == schedule_repo_find(schedules, schedule_id)
    IN  IF found # <<>> /\ found[1].user_id = user_id THEN found ELSE <<>>

DeleteOutcome(result, schedules, services) ==
    [result |-> result, schedules |-> schedules, services |-> services]

\* DeleteScheduleUseCase::execute; delete_ok and remove_ok tell whether the
\* two repository calls succeed, and a call that fails changes nothing
delete_schedule_execute(schedules, services, req, delete_ok, remove_ok) ==
    LET found == find_schedule_of_user(schedules, req.schedule_id, req.user_id)
    IN  IF found = <<>> THEN DeleteOutcome("NotFound", schedules, services)
        ELSE IF ~delete_ok THEN DeleteOutcome("StorageError", schedules, services)
        ELSE
        LET deleted == schedule_repo_delete(schedules, found[1].id)
        IN  IF ~remove_ok THEN DeleteOutcome("StorageError", deleted, services)
            ELSE DeleteOutcome("Ok", deleted,
                               remove_schedule_from_services(services, found[1].id))

\* the schedule ids some member of some service has in its schedule_ids
ReferencedSchedules(services) ==
    UNION {UNION {services[i][j].schedule_ids : j \in 1..Len(services[i])} :
               i \in 1..Len(services)}

\* two services, the first with the members u1 and u2 and the second with
\* u1; a member uses any of the schedules of its user
InitDeleteSchedule ==
    /\ ds_pc = "ready"
    /\ ds_schedules = AllSchedules
    /\ \E a \in SUBSET {"s1"} : \E b \in SUBSET {"s2"} : \E c \in SUBSET {"s1"} :
           ds_services = << << ServiceResource("u1", a), ServiceResource("u2", b) >>,
                            << ServiceResource("u1", c) >> >>
    /\ ds_calls = 0
    /\ ds_request = <<>> /\ ds_before = <<>> /\ ds_result = "none"
    /\ IvIdle /\ BsIdle /\ UcIdle /\ RmIdle /\ ExIdle /\ SdIdle /\ QvIdle /\ UeIdle /\ RiIdle /\ UsIdle /\ GsIdle

\* delete_schedule_controller: the use case is built for the user of the
\* request and the schedule id of the path
DeleteScheduleRequest ==
    /\ ds_pc = "ready" /\ ds_calls < MaxDeleteCalls
    /\ \E u \in {"u1", "u2"} : \E id \in {"s1", "s2", "s3"} :
           ds_request' = [user_id |-> u, schedule_id |-> id]
    /\ ds_before' = [schedules |-> ds_schedules, services |-> ds_services]
    /\ ds_calls' = ds_calls + 1
    /\ ds_pc' = "execute"
    /\ ds_result' = "none"
    /\ UNCHANGED <<ds_schedules, ds_services>>
    /\ UNCHANGED OutsideDs

\* execute_with_policy(usecase, &policy, &ctx)
DeleteScheduleExecute ==
    /\ ds_pc = "execute"
    /\ \E delete_ok \in BOOLEAN : \E remove_ok \in BOOLEAN :
           LET out == delete_schedule_execute(ds_schedules, ds_services, ds_request,
                                              delete_ok, remove_ok)
           IN  /\ ds_result' = out.result
               /\ ds_schedules' = out.schedules
               /\ ds_services' = out.services
    /\ ds_pc' = "executed"
    /\ UNCHANGED <<ds_calls, ds_request, ds_before>>
    /\ UNCHANGED OutsideDs

\* the controller answers
DeleteScheduleRespond ==
    /\ ds_pc = "executed"
    /\ ds_pc' = "ready"
    /\ ds_request' = <<>> /\ ds_before' = <<>> /\ ds_result' = "none"
    /\ UNCHANGED <<ds_schedules, ds_services, ds_calls>>
    /\ UNCHANGED OutsideDs

NextDeleteSchedule ==
    \/ DeleteScheduleRequest
    \/ DeleteScheduleExecute
    \/ DeleteScheduleRespond

SpecDeleteSchedule == InitDeleteSchedule /\ [][NextDeleteSchedule]_vars

\* C27: after DeleteSchedule succeeds for schedule s, s is not found in the
\* schedule repository and no member of any service has s in its
\* schedule_ids; DeleteSchedule by a user who does not own s returns NotFound
\* and changes neither repository.
C27_DeletedAndUnreferenced ==
    /\ (ds_pc = "executed" /\ ds_result = "Ok") =>
          /\ schedule_repo_find(ds_schedules, ds_request.schedule_id) = <<>>
          /\ ds_request.schedule_id \notin ReferencedSchedules(ds_services)
    /\ (/\ ds_pc = "executed"
        /\ \E s \in ds_before.schedules :
              s.id = ds_request.schedule_id /\ s.user_id # ds_request.user_id)
       => /\ ds_result = "NotFound"
          /\ ds_schedules = ds_before.schedules
          /\ ds_services = ds_before.services

\* u1 deletes s1, which both of its memberships used
C27_Witness ==
    /\ ds_pc = "executed" /\ ds_result = "Ok"
    /\ ds_request = [user_id |-> "u1", schedule_id |-> "s1"]
    /\ ds_before.services[1][1].schedule_ids = {"s1"}
    /\ ds_before.services[2][1].schedule_ids = {"s1"}
    /\ ds_before.services[1][2].schedule_ids = {"s2"}
    /\ ds_schedules = {Schedule("s2", "u2")}
    /\ ReferencedSchedules(ds_services) = {"s2"}

\* C28: DeleteSchedule is all-or-nothing: whenever it returns an error,
\* NotFound or StorageError, a failure of remove_schedule_from_services
\* included, the schedule repository and every service are as before the
\* call, so in no reachable state a schedule is deleted while a service
\* still references it.
C28_AllOrNothing ==
    /\ (ds_pc = "executed" /\ ds_result # "Ok") =>
          /\ ds_schedules = ds_before.schedules
          /\ ds_services = ds_before.services
    /\ ds_pc # "idle" =>
          \A id \in ReferencedSchedules(ds_services) :
              schedule_repo_find(ds_schedules, id) # <<>>

(***************************************************************************)
(* update_service_user_usecase, update_service_user.rs                     *)
(*                                                                         *)
(* us_service is the service stored in the service repository: its id, its *)
(* account_id and its users, each with a user_id and its calendar_ids.     *)
(* us_request is the UsecaseReq, us_before the stored service when the     *)
(* request arrived, us_result the Result of the use case.                  *)
(***************************************************************************)
\* calendar_repo.find_by_user(&user_id), mapped to the calendar ids
find_by_user(user_id) ==
    CASE user_id = "u1" -> <<"c1", "c2">>
      [] user_id = "u2" -> <<"c3">>
      [] OTHER -> <<>>

Contains(xs, x) == \E i \in 1..Len(xs) : xs[i] = x

\* service_repo.find(&service_id): Some(service) if service.account_id == req.account.id
find_service_of_account(stored, service_id, account_id) ==
    IF stored.id = service_id /\ stored.account_id = account_id THEN <<stored>> ELSE <<>>

\* service.find_user_mut(&user_id): the position of the first member with
\* that user id, 0 when there is none
find_user_mut(service, user_id) ==
    IF \E i \in 1..Len(service.users) : service.users[i].user_id = user_id
    THEN CHOOSE i \in 1..Len(service.users) :
             /\ service.users[i].user_id = user_id
             /\ \A j \in 1..(i - 1) : service.users[j].user_id # user_id
    ELSE 0

RECURSIVE first_not_owned(_, _)
\* only the first requested calendar is looked up
first_not_owned_head_only(user_calendars, calendar_ids) ==
    IF calendar_ids # <<>> /\ ~Contains(user_calendars, Head(calendar_ids))
    THEN << Head(calendar_ids) >> ELSE <<>>

\* for calendar_id in &req.calendar_ids { if !user_calendars.contains(..) { return Err } }
first_not_owned(user_calendars, calendar_ids) ==
    IF calendar_ids = <<>> THEN <<>>
    ELSE IF ~Contains(user_calendars, Head(calendar_ids)) THEN << Head(calendar_ids) >>
    ELSE first_not_owned(user_calendars, Tail(calendar_ids))

\* user_resource.set_calendar_ids(&req.calendar_ids)
set_calendar_ids(service, pos, calendar_ids) ==
    [service EXCEPT !.users[pos].calendar_ids = calendar_ids]

UsecaseResult(kind, calendar_id) == [kind |-> kind, calendar_id |-> calendar_id]

ServiceOutcome(result, stored) == [result |-> result, stored |-> stored]

\* update_service_user_usecase; save_ok tells whether service_repo.save succeeds
update_service_user_usecase(stored, req, save_ok) ==
    LET found == find_service_of_account(stored, req.service_id, req.account)
    IN  IF found = <<>> THEN ServiceOutcome(UsecaseResult("ServiceNotFoundError", ""), stored)
        ELSE
        LET pos == find_user_mut(found[1], req.user_id)
        IN  IF pos = 0 THEN ServiceOutcome(UsecaseResult("UserNotFoundError", ""), stored)
            ELSE
            LET bad == first_not_owned(find_by_user(req.user_id), req.calendar_ids)
            IN  IF bad # <<>>
                THEN ServiceOutcome(UsecaseResult("CalendarNotOwnedByUser", bad[1]), stored)
                ELSE IF ~save_ok THEN ServiceOutcome(UsecaseResult("StorageError", ""), stored)
                ELSE ServiceOutcome(UsecaseResult("Ok", ""),
                                    set_calendar_ids(found[1], pos, req.calendar_ids))

ServiceUser(user_id, calendar_ids) == [user_id |-> user_id, calendar_ids |-> calendar_ids]

\* the calendar id lists of a request
CalendarIdLists == SeqUpTo({"c1", "c2", "c3"}, MaxCalendarIds)

ServiceRequests ==
    {[account |-> a, service_id |-> s, user_id |-> u, calendar_ids |-> cs] :
        a \in {"a1", "a2"}, s \in {"svc1", "svc2"}, u \in {"u1", "u2", "u3"},
        cs \in CalendarIdLists}

\* the service svc1 of the account a1 with the members u1 and u2, or with u1
\* listed a second time; each member uses calendars of its user
InitServiceUser ==
    /\ us_pc = "ready"
    /\ \E a \in {<<>>, <<"c1">>} : \E b \in {<<>>, <<"c3">>} : \E twice \in BOOLEAN :
           us_service = [id |-> "svc1", account_id |-> "a1",
                         users |-> << ServiceUser("u1", a), ServiceUser("u2", b) >>
                                   \o (IF twice THEN << ServiceUser("u1", <<"c2">>) >> ELSE <<>>)]
    /\ us_calls = 0
    /\ us_request = <<>> /\ us_before = <<>> /\ us_result = <<>>
    /\ IvIdle /\ BsIdle /\ UcIdle /\ RmIdle /\ ExIdle /\ SdIdle /\ QvIdle /\ UeIdle /\ RiIdle /\ DsIdle /\ GsIdle

\* update_service_user_controller builds the UsecaseReq
ServiceUserRequest ==
    /\ us_pc = "ready" /\ us_calls < MaxServiceCalls
    /\ us_request' \in ServiceRequests
    /\ us_before' = us_service
    /\ us_calls' = us_calls + 1
    /\ us_pc' = "execute"
    /\ us_result' = <<>>
    /\ UNCHANGED us_service
    /\ UNCHANGED OutsideUs

\* update_service_user_usecase(req, ctx)
ServiceUserExecute ==
    /\ us_pc = "execute"
    /\ \E save_ok \in BOOLEAN :
           LET out == update_service_user_usecase(us_service, us_request, save_ok)
           IN  us_result' = out.result /\ us_service' = out.stored
    /\ us_pc' = "executed"
    /\ UNCHANGED <<us_calls, us_request, us_before>>
    /\ UNCHANGED OutsideUs

\* the controller answers
ServiceUserRespond ==
    /\ us_pc = "executed"
    /\ us_pc' = "ready"
    /\ us_request' = <<>> /\ us_before' = <<>> /\ us_result' = <<>>
    /\ UNCHANGED <<us_service, us_calls>>
    /\ UNCHANGED OutsideUs

NextServiceUser ==
    \/ ServiceUserRequest
    \/ ServiceUserExecute
    \/ ServiceUserRespond

SpecServiceUser == InitServiceUser /\ [][NextServiceUser]_vars

\* the positions of the requested calendars the user does not own
Offending(req) ==
    {i \in 1..Len(req.calendar_ids) : ~Contains(find_by_user(req.user_id), req.calendar_ids[i])}

\* the positions of the members of a user
MembersOf(service, user_id) ==
    {i \in 1..Len(service.users) : service.users[i].user_id = user_id}

\* C29: after any sequence of update_service_user calls every calendar id in
\* a member's calendar_ids is a calendar of that member's user; a request for
\* a service of another account or an unknown service returns
\* ServiceNotFound, one for a user who is not a member UserNotFound, one
\* naming a calendar the user does not own CalendarNotOwnedByUser with the
\* first such id, each leaving the stored service unchanged; on success the
\* member's calendar_ids are the requested list and the other members are
\* unchanged.
C29_MemberCalendarsOwned ==
    /\ us_pc # "idle" =>
          \A i \in 1..Len(us_service.users) :
              \A k \in 1..Len(us_service.users[i].calendar_ids) :
                  Contains(find_by_user(us_service.users[i].user_id),
                           us_service.users[i].calendar_ids[k])
    /\ us_pc = "executed" =>
          LET req == us_request
              of_user == MembersOf(us_before, req.user_id)
              bad == Offending(req)
          IN  IF req.service_id # us_before.id \/ req.account # us_before.account_id
              THEN us_result.kind = "ServiceNotFoundError" /\ us_service = us_before
              ELSE IF of_user = {}
              THEN us_result.kind = "UserNotFoundError" /\ us_service = us_before
              ELSE IF bad # {}
              THEN /\ us_result = UsecaseResult("CalendarNotOwnedByUser",
                                       req.calendar_ids[CHOOSE i \in bad : \A j \in bad : i <= j])
                   /\ us_service = us_before
              ELSE /\ us_result.kind \in {"Ok", "StorageError"}
                   /\ us_result.kind = "StorageError" => us_service = us_before
                   /\ us_result.kind = "Ok" =>
                         LET m == CHOOSE i \in of_user : \A j \in of_user : i <= j
                         IN  /\ us_service.users[m].calendar_ids = req.calendar_ids
                             /\ us_service = [us_before EXCEPT
                                                 !.users[m].calendar_ids = req.calendar_ids]

\* the second of the two requested calendars is the first one u1 does not
\* own: it is the one reported and the service is as before
C29_Witness ==
    /\ us_pc = "executed"
    /\ us_request = [account |-> "a1", service_id |-> "svc1", user_id |-> "u1",
                     calendar_ids |-> <<"c2", "c3">>]
    /\ us_result = UsecaseResult("CalendarNotOwnedByUser", "c3")
    /\ us_before.users[1].calendar_ids = <<"c1">>
    /\ us_service = us_before

(***************************************************************************)
(* get_booking_slots, the while loop one cursor step at a time             *)
(*                                                                         *)
(* The cursor, the options and their sums are i64 values, here integers of *)
(* IntBits bits.  An addition that leaves the range panics in a build with *)
(* overflow checks and wraps around in a build without them;               *)
(* gs_overflow_checks tells which build runs.  gs_steps counts the         *)
(* executions of the loop body.                                            *)
(***************************************************************************)
I64Min == 0 - 2 ^ (IntBits - 1)

I64Max == 2 ^ (IntBits - 1) - 1

\* i64::wrapping_add
wrapping_add(a, b) == ((a + b - I64Min) % (2 ^ IntBits)) + I64Min

\* i64::checked_add(..).is_none()
add_overflows(a, b) == a + b < I64Min \/ a + b > I64Max

\* while cursor + duration <= end_ts, in a build without overflow checks
cursor_in_window_wrapping(cursor, duration, end_ts) ==
    wrapping_add(cursor, duration) <= end_ts

\* is_cursor_in_events, its cursor + duration wrapped around as well
is_cursor_in_events_wrapping(cursor, duration, evs) ==
    is_cursor_in_events(cursor, wrapping_add(cursor, duration) - cursor, evs)

LoopFreeSets == {CompatibleInstances_new(CellList(F, FALSE)) : F \in SUBSET (0..(LoopCells - 1))}

\* the options the use case passes: the interval is one that
\* validate_slots_interval accepted, so it is at least 1; the duration is the
\* one of the query, any i64
LoopOptions ==
    [start_ts : 0..MaxStart, end_ts : 0..(LoopCells + 1),
     duration : ((-1)..MaxDuration) \cup {I64Max - 1, I64Max}, interval : 1..MaxInterval]

InitSlotsLoop ==
    /\ gs_pc = "call"
    /\ gs_free \in LoopFreeSets
    /\ gs_options \in LoopOptions
    /\ gs_overflow_checks \in BOOLEAN
    /\ gs_cursor = 0 /\ gs_slots = <<>> /\ gs_steps = 0
    /\ IvIdle /\ BsIdle /\ UcIdle /\ RmIdle /\ ExIdle /\ SdIdle /\ QvIdle /\ UeIdle /\ RiIdle /\ DsIdle /\ UsIdle

\* if duration < 1 { return booking_slots; }  let mut cursor = start_ts;
SlotsCall ==
    /\ gs_pc = "call"
    /\ gs_pc' = IF gs_options.duration < 1 THEN "done" ELSE "loop"
    /\ gs_cursor' = gs_options.start_ts
    /\ UNCHANGED <<gs_free, gs_options, gs_slots, gs_steps, gs_overflow_checks>>
    /\ UNCHANGED OutsideGs

\* cursor + duration, or cursor += interval, leaves the i64 range in a build
\* with overflow checks: the thread panics
OverflowPanic ==
    /\ gs_pc = "loop" /\ gs_overflow_checks
    /\ add_overflows(gs_cursor, gs_options.duration)
    /\ gs_pc' = "panicked"
    /\ UNCHANGED <<gs_free, gs_options, gs_cursor, gs_slots, gs_steps, gs_overflow_checks>>
    /\ UNCHANGED OutsideGs

\* one execution of the loop body
CursorStep ==
    /\ gs_pc = "loop"
    /\ ~(gs_overflow_checks /\ add_overflows(gs_cursor, gs_options.duration))
    /\ cursor_in_window_wrapping(gs_cursor, gs_options.duration, gs_options.end_ts)
    /\ LET available_event ==
               is_cursor_in_events_wrapping(gs_cursor, gs_options.duration, gs_free)
       IN  gs_slots' = IF available_event # <<>>
                       THEN Append(gs_slots, BookingSlot(gs_cursor, gs_options.duration,
                                                         available_event[1].end_ts))
                       ELSE gs_slots
    /\ gs_steps' = gs_steps + 1
    /\ IF gs_overflow_checks /\ add_overflows(gs_cursor, gs_options.interval)
       THEN gs_pc' = "panicked" /\ gs_cursor' = gs_cursor
       ELSE gs_pc' = "loop" /\ gs_cursor' = wrapping_add(gs_cursor, gs_options.interval)
    /\ UNCHANGED <<gs_free, gs_options, gs_overflow_checks>>
    /\ UNCHANGED OutsideGs

\* the loop condition is false: booking_slots is returned
LoopExit ==
    /\ gs_pc = "loop"
    /\ ~(gs_overflow_checks /\ add_overflows(gs_cursor, gs_options.duration))
    /\ ~cursor_in_window_wrapping(gs_cursor, gs_options.duration, gs_options.end_ts)
    /\ gs_pc' = "done"
    /\ UNCHANGED <<gs_free, gs_options, gs_cursor, gs_slots, gs_steps, gs_overflow_checks>>
    /\ UNCHANGED OutsideGs

NextSlotsLoop ==
    \/ SlotsCall
    \/ OverflowPanic
    \/ CursorStep
    \/ LoopExit

SpecSlotsLoop == InitSlotsLoop /\ [][NextSlotsLoop]_vars

\* floor((end_ts - start_ts - duration) / interval) + 1, and 0 when the
\* window is shorter than the duration
StepBound(opts) ==
    IF opts.end_ts - opts.start_ts - opts.duration < 0 THEN 0
    ELSE ((opts.end_ts - opts.start_ts - opts.duration) \div opts.interval) + 1

\* C30: get_booking_slots terminates for every free set and every options
\* with interval >= 1 after at most
\* floor((end_ts - start_ts - duration) / interval) + 1 cursor steps; the use
\* case only calls it with an interval validate_slots_interval accepted.
C30_StepsWithinBound ==
    gs_pc # "idle" => gs_steps <= StepBound(gs_options)

====
